---- MODULE Spec2Model ----
(***************************************************************************)
(* Model of the exdsdevs simulation kernel: the Time algebra (time.rs),    *)
(* the coupled-model router (simulator.rs, model.rs), the per-node         *)
(* simulator (simulator.rs) and the root driver (root_simulator.rs).       *)
(*                                                                         *)
(* User behaviours (the Dynamic trait) are abstract: what output() and     *)
(* time_advance() return is drawn nondeterministically at every call.      *)
(* One root-driver tick (RootSimulator::step plus the loop's assignment    *)
(* of sim_time) is one action; the calls made inside it are recorded, in   *)
(* order, in the variable log.                                             *)
(***************************************************************************)
EXTENDS Integers, Sequences, FiniteSets, TLC

\* ------------------------------------------------------------------------
\* Bounds of the model
\* ------------------------------------------------------------------------
\* largest finite value a behaviour's time_advance returns
MaxTA == 1
\* how far below init_time a run is followed once sim_time moves backwards
MaxBackward == 1
\* longest list of coupling edges and longest bag given to the router alone
MaxEdges == 2
MaxMsgs == 2
\* width in bits of Inner, the signed integer of Time::Value, where the Time
\* operations are run on their own (i64 in the source, scaled down)
InnerBits == 3
\* the experiment's finish_time is Value(FinishValue)
FinishValue == 2
\* the most init variants a model declares
MaxVariants == 3
\* the largest value of Experiment.iterations
MaxIterations == 2
\* the largest time_advance of a STRIKE agent in the Ping-Pong example
MaxStrikeTA == 2

\* ------------------------------------------------------------------------
\* time.rs : enum Time and its order and arithmetic
\* ------------------------------------------------------------------------
Value(n) == [tag |-> "Value", v |-> n]
Inf == [tag |-> "Inf", v |-> 0]
StopSim == [tag |-> "StopSim", v |-> 0]

\* impl Ord for Time :: cmp, arm by arm
TimeCmp(a, b) ==
    IF a.tag = "Value" /\ b.tag = "Value"
      THEN (IF a.v < b.v THEN "Less" ELSE IF a.v = b.v THEN "Equal" ELSE "Greater")
    ELSE IF a.tag = "Inf" /\ b.tag = "Value" THEN "Greater"
    ELSE IF a.tag = "Value" /\ b.tag = "Inf" THEN "Less"
    ELSE IF a.tag = "Inf" /\ b.tag = "Inf" THEN "Equal"
    ELSE IF a.tag = "StopSim" THEN "Less"
    ELSE "Greater"

\* impl PartialEq for Time :: eq
TimeEq(a, b) == TimeCmp(a, b) = "Equal"
\* impl PartialOrd for Time :: partial_cmp, as used by <, <=, >=
TimeLt(a, b) == TimeCmp(a, b) = "Less"
TimeLe(a, b) == TimeCmp(a, b) \in {"Less", "Equal"}
TimeGe(a, b) == TimeCmp(a, b) \in {"Greater", "Equal"}
\* Ord::min(self, other): other is returned only when it compares below self
TimeMin(a, b) == IF TimeCmp(a, b) = "Greater" THEN b ELSE a

\* variant: the left operand is dropped
TimeAdd_RightOnly(a, b) == b

\* variant: StopSim is not absorbed by a finite time
TimeAdd_StopSimWins(a, b) ==
    IF a.tag = "Inf" THEN Inf
    ELSE IF b.tag = "Inf" THEN Inf
    ELSE IF a.tag = "Value" /\ b.tag = "Value" THEN Value(a.v + b.v)
    ELSE StopSim

\* impl Add for Time :: add
TimeAdd(a, b) ==
    IF a.tag = "Inf" THEN Inf
    ELSE IF b.tag = "Inf" THEN Inf
    ELSE IF a.tag = "Value" /\ b.tag = "Value" THEN Value(a.v + b.v)
    ELSE IF a.tag = "StopSim" /\ b.tag = "StopSim" THEN StopSim
    ELSE IF a.tag = "Value" THEN Value(a.v)
    ELSE Value(b.v)

\* variant: the right operand is added
TimeSub_AsAdd(a, b) == TimeAdd(a, b)

\* impl Sub for Time :: sub
TimeSub(a, b) ==
    IF a.tag = "Inf" THEN Inf
    ELSE IF b.tag = "Inf" THEN Inf
    ELSE IF a.tag = "Value" /\ b.tag = "Value" THEN Value(a.v - b.v)
    ELSE IF a.tag = "StopSim" /\ b.tag = "StopSim" THEN StopSim
    ELSE IF a.tag = "Value" THEN Value(a.v)
    ELSE Value(b.v)

\* Iterator::min over a sequence of times, None when it is empty
RECURSIVE SeqTimeMin(_)
SeqTimeMin(s) ==
    IF Len(s) = 1 THEN s[1]
    ELSE TimeMin(s[1], SeqTimeMin(Tail(s)))

\* ------------------------------------------------------------------------
\* containers.rs : Msg, MailItem; Bag and Mail are sequences
\* ------------------------------------------------------------------------
Msg(p, x) == [port |-> p, value |-> x]
MailItem(m, y) == [model_name |-> m, y_bag |-> y]

RECURSIVE ConcatAll(_)
ConcatAll(ss) == IF ss = <<>> THEN <<>> ELSE Head(ss) \o ConcatAll(Tail(ss))

\* variant: the search stops at the first message on the port
RECURSIVE Project_FirstOnly(_, _, _)
Project_FirstOnly(bag, from, to) ==
    IF bag = <<>> THEN <<>>
    ELSE IF Head(bag).port = from THEN <<Msg(to, Head(bag).value)>>
    ELSE Project_FirstOnly(Tail(bag), from, to)

\* the messages of bag on port from, re-addressed to port to, in bag order
RECURSIVE Project(_, _, _)
Project(bag, from, to) ==
    IF bag = <<>> THEN <<>>
    ELSE (IF Head(bag).port = from THEN <<Msg(to, Head(bag).value)>> ELSE <<>>)
         \o Project(Tail(bag), from, to)

\* ------------------------------------------------------------------------
\* model.rs : coupling edges and Model::get_y_bag_from_mail
\* ------------------------------------------------------------------------
ExternalInputCoupling(sp, dm, dp) ==
    [source_port |-> sp, destination_model |-> dm, destination_model_port |-> dp]
InternalCoupling(sm, sp, dm, dp) ==
    [source_model |-> sm, source_model_port |-> sp,
     destination_model |-> dm, destination_model_port |-> dp]
ExternalOutputCoupling(sm, sp, dp) ==
    [source_model |-> sm, source_model_port |-> sp, destination_port |-> dp]

\* for each EOC edge, for each mail item of its source, for each message on
\* its port: push (destination_port, value)
GetYBagFromMail(eoc, ml) ==
    ConcatAll([k \in 1..Len(eoc) |->
        ConcatAll([i \in 1..Len(ml) |->
            IF ml[i].model_name = eoc[k].source_model
              THEN Project(ml[i].y_bag, eoc[k].source_model_port, eoc[k].destination_port)
              ELSE <<>>])])

\* ------------------------------------------------------------------------
\* simulator.rs : Simulator::get_submodels_x_bags
\* ------------------------------------------------------------------------
Push(dm, bag) == [i \in 1..Len(bag) |-> [dst |-> dm, msg |-> bag[i]]]

\* variant: the x_bag is the outer loop and the EIC edges the inner one
EicPushes_BagOutermost(eic, x_bag) ==
    ConcatAll([j \in 1..Len(x_bag) |->
        ConcatAll([k \in 1..Len(eic) |->
            Push(eic[k].destination_model,
                 Project(<<x_bag[j]>>, eic[k].source_port, eic[k].destination_model_port))])])

\* the pushes of the first loop: EIC edges outermost, x_bag innermost
EicPushes(eic, x_bag) ==
    ConcatAll([k \in 1..Len(eic) |->
        Push(eic[k].destination_model,
             Project(x_bag, eic[k].source_port, eic[k].destination_model_port))])

\* variant: an edge from a child back to that same child delivers nothing
IcPushes_NoSelfLoop(ic, ml) ==
    ConcatAll([k \in 1..Len(ic) |->
        ConcatAll([i \in 1..Len(ml) |->
            IF ml[i].model_name = ic[k].source_model
               /\ ic[k].source_model # ic[k].destination_model
              THEN Push(ic[k].destination_model,
                        Project(ml[i].y_bag, ic[k].source_model_port,
                                ic[k].destination_model_port))
              ELSE <<>>])])

\* the pushes of the second loop: IC edges outermost, then mail, then y_bag
IcPushes(ic, ml) ==
    ConcatAll([k \in 1..Len(ic) |->
        ConcatAll([i \in 1..Len(ml) |->
            IF ml[i].model_name = ic[k].source_model
              THEN Push(ic[k].destination_model,
                        Project(ml[i].y_bag, ic[k].source_model_port,
                                ic[k].destination_model_port))
              ELSE <<>>])])

RECURSIVE BagOf(_, _)
BagOf(pushes, dm) ==
    IF pushes = <<>> THEN <<>>
    ELSE (IF Head(pushes).dst = dm THEN <<Head(pushes).msg>> ELSE <<>>)
         \o BagOf(Tail(pushes), dm)

\* the BTreeMap<String, Bag> returned: a key exists once something was pushed
GetSubmodelsXBags(eic, ic, x_bag, ml) ==
    LET pushes == EicPushes(eic, x_bag) \o IcPushes(ic, ml)
        keys == {pushes[i].dst : i \in 1..Len(pushes)}
    IN [dm \in keys |-> BagOf(pushes, dm)]

\* ------------------------------------------------------------------------
\* model.rs : Structure. The model trees the kernel is run on
\* ------------------------------------------------------------------------
Root == "root"
Nodes == {"root", "A", "B", "a", "g", "m", "p", "q"}
NoEdges == [n \in Nodes |-> <<>>]

\* sub_simulators is a BTreeMap: children are listed in ascending name order.
\* root{p, q} with the single internal coupling p.out -> q.in
FlatTree ==
    [sub_simulators |-> [NoEdges EXCEPT !["root"] = <<"p", "q">>],
     external_input_couplings |-> NoEdges,
     internal_couplings |->
        [NoEdges EXCEPT !["root"] = <<InternalCoupling("p", "out", "q", "in")>>],
     external_output_couplings |-> NoEdges]

\* root{a, m{g}}: a and m exchange messages, m forwards its input to g and
\* g's output upwards, and g's output is also coupled back to g's input
NestedTree ==
    [sub_simulators |-> [NoEdges EXCEPT !["root"] = <<"a", "m">>, !["m"] = <<"g">>],
     external_input_couplings |->
        [NoEdges EXCEPT !["m"] = <<ExternalInputCoupling("in", "g", "in")>>],
     internal_couplings |->
        [NoEdges EXCEPT !["root"] = <<InternalCoupling("a", "out", "m", "in"),
                                      InternalCoupling("m", "out", "a", "in")>>,
                        !["m"] = <<InternalCoupling("g", "out", "g", "in")>>],
     external_output_couplings |->
        [NoEdges EXCEPT !["m"] = <<ExternalOutputCoupling("g", "out", "out")>>]]

\* a model that is a single atomic: the root has no children
SoloTree ==
    [sub_simulators |-> NoEdges,
     external_input_couplings |-> NoEdges,
     internal_couplings |-> NoEdges,
     external_output_couplings |-> NoEdges]

\* root{m{g}}: the output of the coupled child m is coupled back to m's own
\* input; m forwards its input to g and g's output upwards
LoopTree ==
    [sub_simulators |-> [NoEdges EXCEPT !["root"] = <<"m">>, !["m"] = <<"g">>],
     external_input_couplings |->
        [NoEdges EXCEPT !["m"] = <<ExternalInputCoupling("in", "g", "in")>>],
     internal_couplings |->
        [NoEdges EXCEPT !["root"] = <<InternalCoupling("m", "out", "m", "in")>>],
     external_output_couplings |->
        [NoEdges EXCEPT !["m"] = <<ExternalOutputCoupling("g", "out", "out")>>]]

Trees == <<FlatTree, NestedTree, SoloTree, LoopTree>>

RECURSIVE Descendants(_, _)
Descendants(c, n) ==
    LET subs == {c.sub_simulators[n][i] : i \in 1..Len(c.sub_simulators[n])}
    IN subs \cup UNION {Descendants(c, s) : s \in subs}

\* the nodes of a tree
TreeNodes(c) == {Root} \cup Descendants(c, Root)
SubSet(c, n) == {c.sub_simulators[n][i] : i \in 1..Len(c.sub_simulators[n])}
\* Model::has_submodels
HasSubmodels(c, n) == c.sub_simulators[n] # <<>>

\* ------------------------------------------------------------------------
\* The abstract behaviours (dynamic.rs : trait Dynamic)
\* ------------------------------------------------------------------------
\* what a time_advance that keeps its contract may return
ContractTA == {Inf} \cup {Value(k) : k \in 0..MaxTA}
\* what the time_advance of n may return: a coupled root never schedules
\* itself, a coupled node below it may, and the atomics q and g and an atomic
\* root may also break the contract with a negative value or ask for the
\* stop of the simulation
TA(c, n) ==
    IF n = Root /\ c.sub_simulators[n] # <<>> THEN {Inf}
    ELSE IF n = Root THEN ContractTA \cup {Value(-1), StopSim}
    ELSE IF c.sub_simulators[n] # <<>> THEN {Inf, Value(MaxTA)}
    ELSE IF n \in {"q", "g"} THEN ContractTA \cup {Value(-1), StopSim}
    ELSE ContractTA
\* what output may return
OutBags == {<<>>, <<Msg("aux", 2), Msg("out", 1)>>}

\* every order in which a HashSet holding names of S may be iterated
PermSeqs(S) ==
    {s \in [1..Cardinality(S) -> S] : \A i, j \in 1..Cardinality(S) : s[i] = s[j] => i = j}
\* the functions f on DOMAIN D with f[x] \in D[x] for every x
RECURSIVE Products(_)
Products(D) ==
    IF DOMAIN D = {} THEN {D}
    ELSE LET x == CHOOSE y \in DOMAIN D : TRUE
         IN {(x :> v) @@ f : v \in D[x], f \in Products([y \in DOMAIN D \ {x} |-> D[y]])}
\* one iteration order for the imminent set of every node; a set of fewer
\* than two elements is iterated in one way only
HashOrders(c, imm) ==
    Products([n \in Nodes |-> IF Cardinality(imm[n]) < 2 THEN {c.sub_simulators[n]}
                              ELSE PermSeqs(SubSet(c, n))])

\* ------------------------------------------------------------------------
\* The state of a run
\* ------------------------------------------------------------------------
VARIABLES
    tree,           \* index into Trees: the model tree of this run
    t_last,         \* Simulator.t_last, per node
    t_next_self,    \* Simulator.t_next_self, per node
    t_next,         \* Simulator.t_next, per node
    imminent,       \* Simulator.imminent, per node
    mail,           \* Simulator.mail, per node
    sim_time,       \* RootSimulator.sim_time
    pc,             \* "new", "running", "finished" or "panicked"
    log,            \* calls made by the last action, in order
    ta_returned,    \* tags ("StopSim", "Negative") of special time_advance results so far
    router,         \* the router run on its own: its inputs and what it returned
    time_op,        \* the Time operations run on their own: operands and results
    experiment,     \* the variant enumerator and the experiment driver
    agents          \* the behaviours of the Ping-Pong example: their states and outputs

vars == <<tree, t_last, t_next_self, t_next, imminent, mail, sim_time, pc, log, ta_returned,
          router, time_op, experiment, agents>>

\* RootSimulator.init_time and finish_time
init_time == Value(0)
finish_time == Value(FinishValue)

\* a logged call: the behaviour function or hook, the node, the bag or mail
\* it was given or returned, the sim_time of the call, the node's
\* t_next_self when the call was made, the elapsed time passed to it and the
\* next-event time computed after it
Event(kind, n, b, t, d, el, nx) ==
    [ev |-> kind, node |-> n, bag |-> b, at |-> t, due |-> d, elapsed |-> el, next |-> nx]

\* the part of the state the recursive calls thread through
SimState ==
    [t_last |-> t_last, t_next_self |-> t_next_self, t_next |-> t_next,
     imminent |-> imminent, mail |-> mail, log |-> <<>>, panic |-> FALSE]

Panic(st) == [st EXCEPT !.panic = TRUE]
Logged(st, e) == [st EXCEPT !.log = Append(@, e)]

\* ------------------------------------------------------------------------
\* simulator.rs : Simulator::collect_outputs
\* ------------------------------------------------------------------------
RECURSIVE CollectOutputs(_, _, _, _, _)
RECURSIVE CollectSubs(_, _, _, _, _, _)

\* returns the state and the bag; out[n] is what n's output() returns
CollectOutputs(c, st, n, t, out) ==
    IF st.panic THEN [st |-> st, bag |-> <<>>]
    ELSE IF TimeEq(t, st.t_next_self[n]) THEN
        [st |-> Logged(Logged(st, Event("output", n, out[n], t, st.t_next_self[n], Inf, Inf)),
                       Event("on_outputs", n, out[n], t, st.t_next_self[n], Inf, Inf)),
         bag |-> out[n]]
    ELSE IF TimeEq(t, st.t_next[n]) THEN
        LET s2 == CollectSubs(c, st, n, c.sub_simulators[n], t, out)
            bag == GetYBagFromMail(c.external_output_couplings[n], s2.mail[n])
        IN  IF s2.panic THEN [st |-> s2, bag |-> <<>>]
            ELSE [st |-> Logged(s2, Event("on_outputs", n, bag, t, st.t_next_self[n], Inf, Inf)),
                  bag |-> bag]
    ELSE [st |-> Panic(st), bag |-> <<>>]

\* the loop over sub_simulators() inside collect_outputs
CollectSubs(c, st, n, subs, t, out) ==
    IF subs = <<>> \/ st.panic THEN st
    ELSE LET ch == Head(subs) IN
        IF TimeEq(st.t_next[ch], t) THEN
            LET s1 == [st EXCEPT !.imminent[n] = @ \cup {ch}]
                r == CollectOutputs(c, s1, ch, t, out)
                s2 == IF r.st.panic THEN r.st
                      ELSE [r.st EXCEPT !.mail[n] = Append(@, MailItem(ch, r.bag))]
            IN CollectSubs(c, s2, n, Tail(subs), t, out)
        ELSE CollectSubs(c, st, n, Tail(subs), t, out)

\* ------------------------------------------------------------------------
\* simulator.rs : Simulator::process_y_messages
\* ------------------------------------------------------------------------
\* variant: t_last is left as it was
ProcessYMessages_KeepTLast(st, n, t, ta) ==
    IF st.panic THEN st
    ELSE
        LET elapsed == TimeSub(t, st.t_last[n])
            tns == TimeAdd(t, ta)
            s1 == Logged(st, Event("external_mail_transition", n, st.mail[n], t,
                                   st.t_next_self[n], elapsed, tns))
        IN [s1 EXCEPT !.t_next_self[n] = tns,
                      !.t_next[n] = TimeMin(tns, st.t_next[n])]

\* ta is what time_advance returns after external_mail_transition
ProcessYMessages(st, n, t, ta) ==
    IF st.panic THEN st
    ELSE
        LET elapsed == TimeSub(t, st.t_last[n])
            tns == TimeAdd(t, ta)
            s1 == Logged(st, Event("external_mail_transition", n, st.mail[n], t,
                                   st.t_next_self[n], elapsed, tns))
        IN [s1 EXCEPT !.t_last[n] = t,
                      !.t_next_self[n] = tns,
                      !.t_next[n] = TimeMin(tns, st.t_next[n])]

\* ------------------------------------------------------------------------
\* simulator.rs : Simulator::process_x_messages and what it calls
\* ------------------------------------------------------------------------
\* variant: only the first child is looked at
SubmodelsTNext_FirstOnly(c, st, n) ==
    IF c.sub_simulators[n] = <<>> THEN Inf ELSE st.t_next[c.sub_simulators[n][1]]

\* Simulator::submodels_t_next
SubmodelsTNext(c, st, n) ==
    IF c.sub_simulators[n] = <<>> THEN Inf
    ELSE SeqTimeMin([i \in 1..Len(c.sub_simulators[n]) |-> st.t_next[c.sub_simulators[n][i]]])

\* variant: a non-empty x_bag is looked at first and taken as external input
TransitionKind_BagFirst(t, tns, x_bag) ==
    IF x_bag # <<>> THEN "external_transition"
    ELSE IF TimeEq(t, tns) THEN "internal_transition" ELSE "external_transition"

\* the behaviour transition process_x_messages selects
TransitionKind(t, tns, x_bag) ==
    IF TimeEq(t, tns)
      THEN (IF x_bag = <<>> THEN "internal_transition" ELSE "confluent_transition")
      ELSE "external_transition"

\* variant: sim_time has to be strictly after t_last
Synchronized_Strict(t, tl, tns) == TimeCmp(t, tl) = "Greater" /\ TimeLe(t, tns)

\* the entry condition of process_x_messages
Synchronized(t, tl, tns) == TimeGe(t, tl) /\ TimeLe(t, tns)

RECURSIVE ProcessXMessages(_, _, _, _, _, _, _)
RECURSIVE SentXBagToSubmodels(_, _, _, _, _, _, _)
RECURSIVE ProcessSubs(_, _, _, _, _, _, _)

\* ta[n] is what n's time_advance returns after its transition; ord[n] is
\* the order in which n's imminent HashSet iterates
ProcessXMessages(c, st, n, t, x_bag, ta, ord) ==
    IF st.panic THEN st
    ELSE IF Synchronized(t, st.t_last[n], st.t_next_self[n]) THEN
        LET elapsed == TimeSub(t, st.t_last[n])
            kind == TransitionKind(t, st.t_next_self[n], x_bag)
            tns == TimeAdd(t, ta[n])
            s0 == Logged(st, Event("process_x_messages", n, x_bag, t, st.t_next_self[n],
                                   elapsed, Inf))
            s1 == [Logged(s0, Event(kind, n, x_bag, t, st.t_next_self[n], elapsed, tns))
                     EXCEPT !.t_last[n] = t, !.t_next_self[n] = tns]
        IN  IF HasSubmodels(c, n) THEN
                LET s2 == SentXBagToSubmodels(c, s1, n, t, x_bag, ta, ord)
                    tn == TimeMin(s2.t_next_self[n], SubmodelsTNext(c, s2, n))
                IN  IF s2.panic THEN s2
                    ELSE [Logged(s2, Event("after_submodels_transition", n, <<>>, t,
                                           s2.t_next_self[n], Inf, tn))
                            EXCEPT !.t_next[n] = tn]
            ELSE [s1 EXCEPT !.t_next[n] = tns]
    ELSE Panic(Logged(st, Event("process_x_messages", n, x_bag, t, st.t_next_self[n],
                                TimeSub(t, st.t_last[n]), Inf)))

\* names: the children to call, in order; bags: the bag of each that has one
ProcessSubs(c, st, names, bags, t, ta, ord) ==
    IF names = <<>> \/ st.panic THEN st
    ELSE LET ch == Head(names)
             b == IF ch \in DOMAIN bags THEN bags[ch] ELSE <<>>
         IN ProcessSubs(c, ProcessXMessages(c, st, ch, t, b, ta, ord),
                        Tail(names), bags, t, ta, ord)

\* variant: every imminent child is called with an empty bag, routed or not
SentXBagToSubmodels_AllImminent(c, st, n, t, x_bag, ta, ord) ==
    LET x_bags_for_submodels ==
            GetSubmodelsXBags(c.external_input_couplings[n], c.internal_couplings[n],
                              x_bag, st.mail[n])
        has_x_bags == DOMAIN x_bags_for_submodels
        s1 == [st EXCEPT !.mail[n] = <<>>]
        without == SelectSeq(ord[n], LAMBDA ch : ch \in st.imminent[n])
        s2 == ProcessSubs(c, s1, without, <<>>, t, ta, ord)
        s3 == IF s2.panic THEN s2 ELSE [s2 EXCEPT !.imminent[n] = {}]
        with == SelectSeq(c.sub_simulators[n], LAMBDA ch : ch \in has_x_bags)
    IN ProcessSubs(c, s3, with, x_bags_for_submodels, t, ta, ord)

\* variant: every child without a routed bag is called with an empty bag
SentXBagToSubmodels_EveryChild(c, st, n, t, x_bag, ta, ord) ==
    LET x_bags_for_submodels ==
            GetSubmodelsXBags(c.external_input_couplings[n], c.internal_couplings[n],
                              x_bag, st.mail[n])
        has_x_bags == DOMAIN x_bags_for_submodels
        s1 == [st EXCEPT !.mail[n] = <<>>]
        without == SelectSeq(c.sub_simulators[n], LAMBDA ch : ch \notin has_x_bags)
        s2 == ProcessSubs(c, s1, without, <<>>, t, ta, ord)
        s3 == IF s2.panic THEN s2 ELSE [s2 EXCEPT !.imminent[n] = {}]
        with == SelectSeq(c.sub_simulators[n], LAMBDA ch : ch \in has_x_bags)
    IN ProcessSubs(c, s3, with, x_bags_for_submodels, t, ta, ord)

\* variant: the mail is kept
SentXBagToSubmodels_KeepMail(c, st, n, t, x_bag, ta, ord) ==
    LET x_bags_for_submodels ==
            GetSubmodelsXBags(c.external_input_couplings[n], c.internal_couplings[n],
                              x_bag, st.mail[n])
        has_x_bags == DOMAIN x_bags_for_submodels
        without == SelectSeq(ord[n], LAMBDA ch : ch \in st.imminent[n] \ has_x_bags)
        s2 == ProcessSubs(c, st, without, <<>>, t, ta, ord)
        s3 == IF s2.panic THEN s2 ELSE [s2 EXCEPT !.imminent[n] = {}]
        with == SelectSeq(c.sub_simulators[n], LAMBDA ch : ch \in has_x_bags)
    IN ProcessSubs(c, s3, with, x_bags_for_submodels, t, ta, ord)

\* variant: only the children that were routed a bag are called
SentXBagToSubmodels_RoutedOnly(c, st, n, t, x_bag, ta, ord) ==
    LET x_bags_for_submodels ==
            GetSubmodelsXBags(c.external_input_couplings[n], c.internal_couplings[n],
                              x_bag, st.mail[n])
        s1 == [st EXCEPT !.mail[n] = <<>>, !.imminent[n] = {}]
        with == SelectSeq(c.sub_simulators[n], LAMBDA ch : ch \in DOMAIN x_bags_for_submodels)
    IN ProcessSubs(c, s1, with, x_bags_for_submodels, t, ta, ord)

SentXBagToSubmodels(c, st, n, t, x_bag, ta, ord) ==
    LET x_bags_for_submodels ==
            GetSubmodelsXBags(c.external_input_couplings[n], c.internal_couplings[n],
                              x_bag, st.mail[n])
        has_x_bags == DOMAIN x_bags_for_submodels
        s1 == [st EXCEPT !.mail[n] = <<>>]
        \* imminent.difference(&has_x_bags), in the HashSet's order
        without == SelectSeq(ord[n], LAMBDA ch : ch \in st.imminent[n] \ has_x_bags)
        s2 == ProcessSubs(c, s1, without, <<>>, t, ta, ord)
        s3 == IF s2.panic THEN s2 ELSE [s2 EXCEPT !.imminent[n] = {}]
        \* x_bags_for_submodels.into_iter(): ascending key order
        with == SelectSeq(c.sub_simulators[n], LAMBDA ch : ch \in has_x_bags)
    IN ProcessSubs(c, s3, with, x_bags_for_submodels, t, ta, ord)

\* ------------------------------------------------------------------------
\* root_simulator.rs : RootSimulator::step
\* ------------------------------------------------------------------------
\* variant: the transitions are run before the outputs are collected
RootStep_TransitionsFirst(c, st, t, out, taY, ta, ord) ==
    LET s1 == ProcessXMessages(c, st, Root, t, <<>>, ta, ord)
        s2 == CollectOutputs(c, s1, Root, t, out).st
    IN ProcessYMessages(s2, Root, t, taY)

\* taY is what the root's time_advance returns inside process_y_messages
RootStep(c, st, t, out, taY, ta, ord) ==
    LET s1 == CollectOutputs(c, st, Root, t, out).st
        s2 == ProcessYMessages(s1, Root, t, taY)
    IN ProcessXMessages(c, s2, Root, t, <<>>, ta, ord)

\* ------------------------------------------------------------------------
\* simulator.rs : Simulator::init and Simulator::finish
\* ------------------------------------------------------------------------
\* t_next as init leaves it: the minimum over the initialised children, then
\* .min(t_next_self)
\* variant: the children's next-event times are left out
InitTNext_SelfOnly(c, tns, n) == tns[n]

RECURSIVE InitTNext(_, _, _)
InitTNext(c, tns, n) ==
    LET subs == c.sub_simulators[n]
        subs_min == IF subs = <<>> THEN Inf
                    ELSE SeqTimeMin([i \in 1..Len(subs) |-> InitTNext(c, tns, subs[i])])
    IN TimeMin(subs_min, tns[n])

\* the behaviours' init calls in call order: a node, then its children
RECURSIVE InitLog(_, _, _)
InitLog(c, n, t) ==
    <<Event("init", n, <<>>, t, Inf, Inf, Inf)>>
    \o ConcatAll([i \in 1..Len(c.sub_simulators[n]) |-> InitLog(c, c.sub_simulators[n][i], t)])

\* variant: finish is given init_time
RECURSIVE FinishLog_AtInitTime(_, _, _)
FinishLog_AtInitTime(c, n, t) ==
    ConcatAll([i \in 1..Len(c.sub_simulators[n]) |->
                 FinishLog_AtInitTime(c, c.sub_simulators[n][i], t)])
    \o <<Event("finish", n, <<>>, init_time, Inf, Inf, Inf)>>

\* variant: a node is finished before its children
RECURSIVE FinishLog_SelfFirst(_, _, _)
FinishLog_SelfFirst(c, n, t) ==
    <<Event("finish", n, <<>>, t, Inf, Inf, Inf)>>
    \o ConcatAll([i \in 1..Len(c.sub_simulators[n]) |->
                    FinishLog_SelfFirst(c, c.sub_simulators[n][i], t)])

\* the behaviours' finish calls in call order: the children, then the node
RECURSIVE FinishLog(_, _, _)
FinishLog(c, n, t) ==
    ConcatAll([i \in 1..Len(c.sub_simulators[n]) |-> FinishLog(c, c.sub_simulators[n][i], t)])
    \o <<Event("finish", n, <<>>, t, Inf, Inf, Inf)>>

\* ------------------------------------------------------------------------
\* Bookkeeping on what the behaviours returned
\* ------------------------------------------------------------------------
TaTags(S) ==
    (IF \E x \in S : x.tag = "StopSim" THEN {"StopSim"} ELSE {})
    \cup (IF \E x \in S : x.tag = "Value" /\ x.v < 0 THEN {"Negative"} ELSE {})

Transitions == {"internal_transition", "external_transition", "confluent_transition"}
\* the nodes on which a logged call of one of kinds was made
NodesOf(lg, kinds) == {lg[i].node : i \in {j \in 1..Len(lg) : lg[j].ev \in kinds}}

NoOutput == [n \in Nodes |-> <<>>]
AnyTa == [n \in Nodes |-> Inf]

\* ------------------------------------------------------------------------
\* observer.rs : Observer, and the loops over Simulator.observers
\* ------------------------------------------------------------------------
\* Simulator.observers of every node: build_simulator adds them in the order
\* of the class's list, which need not be the order of their names
Observers ==
    [n \in Nodes |-> IF n \in {"a", "q"} THEN <<"logger", "collector">>
                     ELSE <<"collector", "logger">>]

\* a call of a hook of an observer, or (by "model") of a function of the
\* behaviour: the node, the sim_time and the time reported to the hook
Hook(name, n, by, t, reported) ==
    [hook |-> name, node |-> n, by |-> by, at |-> t, reported |-> reported]

\* variant: the observers are iterated from the last one to the first one
Notify_Reversed(name, n, obs, t, reported) ==
    [i \in 1..Len(obs) |-> Hook(name, n, obs[Len(obs) + 1 - i], t, reported)]

\* for observer in self.observers.iter_mut() { observer.name(..) }
Notify(name, n, obs, t, reported) ==
    [i \in 1..Len(obs) |-> Hook(name, n, obs[i], t, reported)]

\* what the kernel calls on the observers and on the behaviour for one
\* logged call e: the before_ loop, the function of the behaviour, then
\* (t_next_self being recomputed) the after_ loop
HooksOf(e, obs) ==
    IF e.ev \in Transitions \cup {"external_mail_transition"} THEN
        Notify("before_" \o e.ev, e.node, obs[e.node], e.at, Inf)
        \o <<Hook(e.ev, e.node, "model", e.at, Inf)>>
        \o Notify("after_" \o e.ev, e.node, obs[e.node], e.at, e.next)
    ELSE IF e.ev \in {"on_outputs", "after_submodels_transition"} THEN
        Notify(e.ev, e.node, obs[e.node], e.at, e.next)
    ELSE IF e.ev = "output" THEN <<Hook(e.ev, e.node, "model", e.at, Inf)>>
    ELSE <<>>

\* the calls of a tick on the observers and the behaviours, in call order
ObserverCalls(lg, obs) == ConcatAll([i \in 1..Len(lg) |-> HooksOf(lg[i], obs)])

\* ------------------------------------------------------------------------
\* Actions
\* ------------------------------------------------------------------------
TimeIdle ==
    [phase |-> "idle", x |-> Inf, y |-> Inf, z |-> Inf, xx |-> "", xy |-> "", yx |-> "",
     yz |-> "", xz |-> "", eq_xx |-> FALSE, eq_xy |-> FALSE, sum |-> Inf, diff |-> Inf]

ExperimentIdle == [phase |-> "idle"]

AgentsIdle ==
    [phase |-> "idle", first |-> <<>>, dyn |-> <<>>, outputs |-> <<>>, drawn |-> {}]

RouterIdle ==
    [phase |-> "idle", eic |-> <<>>, ic |-> <<>>, eoc |-> <<>>, x_bag |-> <<>>,
     mail |-> <<>>, x_bags |-> <<>>, y_bag |-> <<>>]

\* variant: the loop also runs at finish_time
LoopCondition_Inclusive(st, ft) == TimeLe(st, ft)

\* the condition of the while loop of RootSimulator::run
LoopCondition(st, ft) == TimeLt(st, ft)

\* Simulator::new for every node and RootSimulator::new
Init ==
    /\ tree \in 1..Len(Trees)
    /\ t_last = [n \in Nodes |-> Value(0)]
    /\ t_next_self = [n \in Nodes |-> Inf]
    /\ t_next = [n \in Nodes |-> Inf]
    /\ imminent = [n \in Nodes |-> {}]
    /\ mail = [n \in Nodes |-> <<>>]
    /\ sim_time = init_time
    /\ pc = "new"
    /\ log = <<>>
    /\ ta_returned = {}
    /\ router = RouterIdle
    /\ time_op = TimeIdle
    /\ experiment = ExperimentIdle
    /\ agents = AgentsIdle

\* RootSimulator::init: Simulator::init on the whole tree, then sim_time
SimInit ==
    /\ pc = "new"
    /\ LET c == Trees[tree] IN
       \E ta \in Products([n \in TreeNodes(c) |-> TA(c, n)]) :
          LET tns == [n \in Nodes |-> IF n \in TreeNodes(c)
                                        THEN TimeAdd(init_time, ta[n]) ELSE t_next_self[n]]
              tn == [n \in Nodes |-> IF n \in TreeNodes(c)
                                       THEN InitTNext(c, tns, n) ELSE t_next[n]]
          IN /\ t_last' = [n \in Nodes |-> IF n \in TreeNodes(c) THEN init_time ELSE t_last[n]]
             /\ t_next_self' = tns
             /\ t_next' = tn
             /\ sim_time' = tn[Root]
             /\ log' = InitLog(c, Root, init_time)
             /\ ta_returned' = TaTags({ta[n] : n \in TreeNodes(c)})
    /\ pc' = "running"
    /\ UNCHANGED <<tree, imminent, mail, router, time_op, experiment, agents>>

\* the results of time_advance for the nodes of S
TaChoices(c, S) == Products([n \in S |-> TA(c, n)])

\* one iteration of the loop of RootSimulator::run: step(), then sim_time.
\* Drawn are: what output() returns on the nodes it is called on, what
\* time_advance returns on the nodes it is called on, and the HashSet orders
Step ==
    /\ pc = "running"
    /\ LoopCondition(sim_time, finish_time)
    /\ TimeGe(sim_time, Value(0 - MaxBackward))
    /\ \E c \in {Trees[tree]} :
       \E collected \in {CollectOutputs(c, SimState, Root, sim_time, NoOutput).st} :
       \E emitting \in {NodesOf(collected.log, {"output"})} :
       \E outs \in [emitting -> OutBags], taY \in TA(c, Root),
          ord \in HashOrders(c, collected.imminent) :
       \E out \in {[n \in Nodes |-> IF n \in emitting THEN outs[n] ELSE <<>>]} :
       \E called \in {NodesOf(RootStep(c, SimState, sim_time, out, taY, AnyTa, ord).log,
                               Transitions)} :
       \E tas \in TaChoices(c, called) :
       \E r \in {RootStep(c, SimState, sim_time, out, taY,
                            [n \in Nodes |-> IF n \in called THEN tas[n] ELSE Inf], ord)} :
          /\ t_last' = r.t_last
          /\ t_next_self' = r.t_next_self
          /\ t_next' = r.t_next
          /\ imminent' = r.imminent
          /\ mail' = r.mail
          /\ log' = r.log
          /\ pc' = IF r.panic THEN "panicked" ELSE "running"
          /\ sim_time' = IF r.panic THEN sim_time ELSE r.t_next[Root]
          /\ ta_returned' = ta_returned \cup TaTags({taY} \cup {tas[n] : n \in called})
    /\ UNCHANGED <<tree, router, time_op, experiment, agents>>

\* the loop of RootSimulator::run has ended: finish(sim_time)
Finish ==
    /\ pc = "running"
    /\ ~LoopCondition(sim_time, finish_time)
    /\ pc' = "finished"
    /\ log' = FinishLog(Trees[tree], Root, sim_time)
    /\ UNCHANGED <<tree, t_last, t_next_self, t_next, imminent, mail, sim_time, ta_returned,
                   router, time_op, experiment, agents>>

Next == SimInit \/ Step \/ Finish

Spec == Init /\ [][Next]_vars

\* every state of the kernel one iteration of the loop of RootSimulator::run
\* can lead to from the current one: step() under every result the
\* behaviours and the HashSets may give
TickOutcomes ==
    LET c == Trees[tree]
        collected == CollectOutputs(c, SimState, Root, sim_time, NoOutput).st
        emitting == NodesOf(collected.log, {"output"})
        Out(outs) == [n \in Nodes |-> IF n \in emitting THEN outs[n] ELSE <<>>]
        Called(out, taY, ord) ==
            NodesOf(RootStep(c, SimState, sim_time, out, taY, AnyTa, ord).log, Transitions)
    IN UNION {
         UNION {
           UNION {
             {RootStep(c, SimState, sim_time, Out(outs), taY,
                       [n \in Nodes |-> IF n \in DOMAIN tas THEN tas[n] ELSE Inf], ord) :
                tas \in TaChoices(c, Called(Out(outs), taY, ord))} :
             ord \in HashOrders(c, collected.imminent)} :
           taY \in TA(c, Root)} :
         outs \in [emitting -> OutBags]}

\* ------------------------------------------------------------------------
\* The router on its own: get_submodels_x_bags and get_y_bag_from_mail
\* applied to coupling lists, an x_bag and a mail of a node with the
\* children p and q
\* ------------------------------------------------------------------------
SeqsUpTo(S, n) == UNION {[1..k -> S] : k \in 0..n}

EicEdges == {ExternalInputCoupling("i1", "p", "in"), ExternalInputCoupling("i2", "p", "in"),
             ExternalInputCoupling("i1", "q", "in")}
IcEdges == {InternalCoupling("p", "o", "q", "in"), InternalCoupling("p", "z", "q", "in"),
            InternalCoupling("q", "o", "q", "in"), InternalCoupling("q", "o", "p", "in")}
EocEdges == {ExternalOutputCoupling("p", "o", "out"), ExternalOutputCoupling("p", "z", "out"),
             ExternalOutputCoupling("q", "o", "out")}
XBags == SeqsUpTo({Msg("i1", 1), Msg("i2", 2)}, MaxMsgs)
YBags == SeqsUpTo({Msg("o", 3), Msg("z", 4)}, MaxMsgs)
\* collect_outputs pushes one item per imminent child, in child-name order
Mails ==
    {<<>>} \cup {<<MailItem(ch, y)>> : ch \in {"p", "q"}, y \in YBags}
    \cup {<<MailItem("p", y1), MailItem("q", y2)>> : y1 \in YBags, y2 \in YBags}

RouterInit ==
    /\ tree = 1
    /\ t_last = [n \in Nodes |-> Value(0)]
    /\ t_next_self = [n \in Nodes |-> Inf]
    /\ t_next = [n \in Nodes |-> Inf]
    /\ imminent = [n \in Nodes |-> {}]
    /\ mail = [n \in Nodes |-> <<>>]
    /\ sim_time = init_time
    /\ pc = "new"
    /\ log = <<>>
    /\ ta_returned = {}
    /\ time_op = TimeIdle
    /\ experiment = ExperimentIdle
    /\ agents = AgentsIdle
    /\ \/ \E ne \in 0..MaxEdges :
          \E eic \in SeqsUpTo(EicEdges, ne), ic \in SeqsUpTo(IcEdges, MaxEdges - ne),
             xb \in XBags, ml \in Mails :
             /\ Len(eic) = ne
             /\ router = [RouterIdle EXCEPT !.phase = "down", !.eic = eic, !.ic = ic,
                                            !.x_bag = xb, !.mail = ml]
       \/ \E edges \in SeqsUpTo(EocEdges, MaxEdges), ml \in Mails :
             router = [RouterIdle EXCEPT !.phase = "up", !.eoc = edges, !.mail = ml]

\* Simulator::get_submodels_x_bags is called
RouteDown ==
    /\ router.phase = "down"
    /\ router' = [router EXCEPT
                    !.phase = "routed_down",
                    !.x_bags = GetSubmodelsXBags(router.eic, router.ic, router.x_bag,
                                                 router.mail)]
    /\ UNCHANGED <<tree, t_last, t_next_self, t_next, imminent, mail, sim_time, pc, log,
                   ta_returned, time_op, experiment, agents>>

\* Model::get_y_bag_from_mail is called
RouteUp ==
    /\ router.phase = "up"
    /\ router' = [router EXCEPT !.phase = "routed_up",
                                !.y_bag = GetYBagFromMail(router.eoc, router.mail)]
    /\ UNCHANGED <<tree, t_last, t_next_self, t_next, imminent, mail, sim_time, pc, log,
                   ta_returned, time_op, experiment, agents>>

RouterNext == RouteDown \/ RouteUp

RouterSpec == RouterInit /\ [][RouterNext]_vars

\* the range of Inner
InnerMin == 0 - 2^(InnerBits - 1)
InnerMax == 2^(InnerBits - 1) - 1
InRange(k) == k \in InnerMin..InnerMax
\* two's complement wrap-around of a result that left the range
Wrap(k) == ((k - InnerMin) % 2^InnerBits) + InnerMin
\* the operation panicked with "attempt to add/subtract with overflow"
Overflowed == [tag |-> "Panic", v |-> 0]

\* `left + right` and `left - right` on Inner: a result outside the range
\* panics in a build with overflow checks (the debug profile) and wraps
\* around in a build without them (the release profile); the repository
\* fixes neither profile
AddOutcomes(a, b) ==
    IF a.tag = "Value" /\ b.tag = "Value" /\ ~InRange(a.v + b.v)
      THEN {Overflowed, Value(Wrap(a.v + b.v))}
      ELSE {TimeAdd(a, b)}
SubOutcomes(a, b) ==
    IF a.tag = "Value" /\ b.tag = "Value" /\ ~InRange(a.v - b.v)
      THEN {Overflowed, Value(Wrap(a.v - b.v))}
      ELSE {TimeSub(a, b)}

\* ------------------------------------------------------------------------
\* The Time operations on their own: cmp, eq, add and sub applied to
\* operands drawn from every value of Inner, Inf and StopSim
\* ------------------------------------------------------------------------
Times == {Value(k) : k \in InnerMin..InnerMax} \cup {Inf, StopSim}

TimeInit ==
    /\ tree = 1
    /\ t_last = [n \in Nodes |-> Value(0)]
    /\ t_next_self = [n \in Nodes |-> Inf]
    /\ t_next = [n \in Nodes |-> Inf]
    /\ imminent = [n \in Nodes |-> {}]
    /\ mail = [n \in Nodes |-> <<>>]
    /\ sim_time = init_time
    /\ pc = "new"
    /\ log = <<>>
    /\ ta_returned = {}
    /\ router = RouterIdle
    /\ experiment = ExperimentIdle
    /\ agents = AgentsIdle
    /\ \E x \in Times, y \in Times, z \in Times :
          time_op = [TimeIdle EXCEPT !.phase = "given", !.x = x, !.y = y, !.z = z]

\* Ord::cmp and PartialEq::eq are called on the operands
Compare ==
    /\ time_op.phase = "given"
    /\ time_op' = [time_op EXCEPT
                     !.phase = "compared",
                     !.xx = TimeCmp(time_op.x, time_op.x),
                     !.xy = TimeCmp(time_op.x, time_op.y),
                     !.yx = TimeCmp(time_op.y, time_op.x),
                     !.yz = TimeCmp(time_op.y, time_op.z),
                     !.xz = TimeCmp(time_op.x, time_op.z),
                     !.eq_xx = TimeEq(time_op.x, time_op.x),
                     !.eq_xy = TimeEq(time_op.x, time_op.y)]
    /\ UNCHANGED <<tree, t_last, t_next_self, t_next, imminent, mail, sim_time, pc, log,
                   ta_returned, router, experiment, agents>>

\* Add::add and Sub::sub are called on the operands
Compute ==
    /\ time_op.phase = "given"
    /\ \E sum \in AddOutcomes(time_op.x, time_op.y), diff \in SubOutcomes(time_op.x, time_op.y) :
          time_op' = [time_op EXCEPT !.phase = "computed", !.sum = sum, !.diff = diff]
    /\ UNCHANGED <<tree, t_last, t_next_self, t_next, imminent, mail, sim_time, pc, log,
                   ta_returned, router, experiment, agents>>

TimeNext == Compare \/ Compute

TimeSpec == TimeInit /\ [][TimeNext]_vars

\* ------------------------------------------------------------------------
\* experiment.rs : InitVariantsFactory. A model_full_name "root/a/x" is the
\* sequence <<"a", "x">> of submodel names below the root
\* ------------------------------------------------------------------------
\* the submodel names in use, in the byte order of String
Names == <<"a", "b", "x">>
NameRank(n) == CHOOSE i \in 1..Len(Names) : Names[i] = n

\* Ord of String on full names: "/" sorts below every letter of a name, so a
\* name is below its extensions and otherwise the first differing submodel
\* name decides
RECURSIVE PathLess(_, _)
PathLess(p, q) ==
    IF p = <<>> THEN q # <<>>
    ELSE IF q = <<>> THEN FALSE
    ELSE IF Head(p) = Head(q) THEN PathLess(Tail(p), Tail(q))
    ELSE NameRank(Head(p)) < NameRank(Head(q))

\* the class storages the enumerator is built from: the submodels of every
\* model (a BTreeMap, names ascending). root{a, b} and root{a{x}, b}
FlatClasses ==
    [p \in {<<>>, <<"a">>, <<"b">>} |-> IF p = <<>> THEN <<"a", "b">> ELSE <<>>]
NestedClasses ==
    [p \in {<<>>, <<"a">>, <<"a", "x">>, <<"b">>} |->
        IF p = <<>> THEN <<"a", "b">> ELSE IF p = <<"a">> THEN <<"x">> ELSE <<>>]
ClassStorages == <<FlatClasses, NestedClasses>>

\* root_init_variants is None
NoRootInit == 0 - 1
\* the declared variants of every model: how many entries its init_variants
\* (root: root_init_variants) map has; a submodel without init_variants has
\* the empty map (Submodel::get_init_values)
VariantCounts(classes) ==
    Products([p \in DOMAIN classes |->
                 IF p = <<>> THEN {NoRootInit} \cup 0..MaxVariants ELSE 0..MaxVariants])

\* the i-th variant value declared for model p, and the default_init of its class
VariantValue(p, i) == [model |-> p, variant |-> i]
DefaultInit(p) == [model |-> p, variant |-> 0]

\* the walk of InitVariantsFactory::new: pop_front, push_back the submodels
RECURSIVE BreadthFirst(_, _)
BreadthFirst(classes, queue) ==
    IF queue = <<>> THEN <<>>
    ELSE LET p == Head(queue)
             subs == [i \in 1..Len(classes[p]) |-> Append(p, classes[p][i])]
         IN <<p>> \o BreadthFirst(classes, Tail(queue) \o subs)

\* the keys of a BTreeMap<String, _> in iteration order
BTreeKeys(S) ==
    CHOOSE s \in PermSeqs(S) : \A i, j \in 1..Len(s) : i < j => PathLess(s[i], s[j])

\* InitVariantsFactory::get_init_vec
GetInitVec(init_variants_names) ==
    LET keys == BTreeKeys(DOMAIN init_variants_names)
    IN [i \in 1..Len(keys) |->
           [model_path |-> keys[i], len |-> Len(init_variants_names[keys[i]]), idx |-> 0]]

\* InitVariantsFactory::new: panics when the root class has no
\* root_init_variants; the walk fills init_variants_values, a BTreeMap keyed
\* by full name; default_init_values is filled too and dropped at return
FactoryNew(classes, counts) ==
    IF counts[<<>>] = NoRootInit THEN [panic |-> TRUE]
    ELSE LET walked == BreadthFirst(classes, << <<>> >>)
             names == [p \in {walked[i] : i \in 1..Len(walked)} |->
                          [k \in 1..counts[p] |-> k]]
         IN [panic |-> FALSE,
             init_variants_names |-> names,
             init_vec |-> GetInitVec(names),
             carry |-> 0,
             var_number |-> 0]

\* the loop `for val in self.init_vec.iter_mut().rev()` of next_variant,
\* from digit i down to the first
RECURSIVE Increment(_, _, _)
Increment(vec, i, carry) ==
    IF i = 0 THEN [init_vec |-> vec, carry |-> carry]
    ELSE LET idx == vec[i].idx + carry
         IN IF idx = vec[i].len
              THEN Increment([vec EXCEPT ![i].idx = 0], i - 1, 1)
              ELSE Increment([vec EXCEPT ![i].idx = idx], i - 1, 0)

\* InitVariantsFactory::next_variant: None once carry is set; the unwrap of
\* names.get(idx) panics on a digit without variants
NextVariant(f) ==
    IF f.carry # 0 THEN [some |-> FALSE, panic |-> FALSE, factory |-> f]
    ELSE IF \E i \in 1..Len(f.init_vec) : f.init_vec[i].idx >= f.init_vec[i].len
      THEN [some |-> FALSE, panic |-> TRUE, factory |-> f]
    ELSE LET next_init == [p \in DOMAIN f.init_variants_names |->
                              LET d == CHOOSE i \in 1..Len(f.init_vec) :
                                           f.init_vec[i].model_path = p
                              IN f.init_variants_names[p][f.init_vec[d].idx + 1]]
             inc == Increment(f.init_vec, Len(f.init_vec), 1)
         IN [some |-> TRUE, panic |-> FALSE,
             var_number |-> f.var_number,
             next_init |-> next_init,
             factory |-> [f EXCEPT !.init_vec = inc.init_vec, !.carry = inc.carry,
                                   !.var_number = @ + 1]]

\* InitVariantsFactory::next_enumerated_variant: the names are replaced by
\* the declared values
NextEnumeratedVariant(f) ==
    LET r == NextVariant(f)
    IN IF ~r.some THEN r
       ELSE [some |-> TRUE, panic |-> FALSE,
             var_number |-> r.var_number,
             values |-> [p \in DOMAIN r.next_init |-> VariantValue(p, r.next_init[p])],
             factory |-> r.factory]

\* ------------------------------------------------------------------------
\* The enumerator on its own: built from a class storage, then asked for
\* variants until it reports None
\* ------------------------------------------------------------------------
EnumInit ==
    /\ tree = 1
    /\ t_last = [n \in Nodes |-> Value(0)]
    /\ t_next_self = [n \in Nodes |-> Inf]
    /\ t_next = [n \in Nodes |-> Inf]
    /\ imminent = [n \in Nodes |-> {}]
    /\ mail = [n \in Nodes |-> <<>>]
    /\ sim_time = init_time
    /\ pc = "new"
    /\ log = <<>>
    /\ ta_returned = {}
    /\ router = RouterIdle
    /\ time_op = TimeIdle
    /\ agents = AgentsIdle
    /\ \E k \in 1..Len(ClassStorages) : \E counts \in VariantCounts(ClassStorages[k]) :
          experiment = [phase |-> "classes", classes |-> ClassStorages[k], counts |-> counts,
                        factory |-> [panic |-> FALSE], yielded |-> <<>>]

EnumNew ==
    /\ experiment.phase = "classes"
    /\ \E f \in {FactoryNew(experiment.classes, experiment.counts)} :
          experiment' = [experiment EXCEPT !.phase = IF f.panic THEN "panicked" ELSE "ready",
                                           !.factory = f]
    /\ UNCHANGED <<tree, t_last, t_next_self, t_next, imminent, mail, sim_time, pc, log,
                   ta_returned, router, time_op, agents>>

EnumNext ==
    /\ experiment.phase = "ready"
    /\ \E r \in {NextEnumeratedVariant(experiment.factory)} :
          experiment' =
             IF r.panic THEN [experiment EXCEPT !.phase = "panicked"]
             ELSE IF ~r.some THEN [experiment EXCEPT !.phase = "exhausted"]
             ELSE [experiment EXCEPT
                      !.factory = r.factory,
                      !.yielded = Append(@, [var_number |-> r.var_number,
                                             values |-> r.values])]
    /\ UNCHANGED <<tree, t_last, t_next_self, t_next, imminent, mail, sim_time, pc, log,
                   ta_returned, router, time_op, agents>>

EnumNextStep == EnumNew \/ EnumNext

EnumSpec == EnumInit /\ [][EnumNextStep]_vars

\* ------------------------------------------------------------------------
\* experiment.rs : Experiment::run_single_thread and run_multi_thread
\* ------------------------------------------------------------------------
\* ExperimentConfig.random_seed
RandomSeed == 5
\* the worker threads of a threadpool (one per CPU by default)
PoolThreads == 2
\* the runs (var_number, iteration) in which a fatal error occurs: what a
\* run does is fixed by its variant and its seed
FailingRuns == {{}} \cup {{<<v, i>>} : v \in 0..1, i \in 0..(MaxIterations - 1)}

\* a random generator: where it was made, for which node, and its seed
Rng(origin, node, seed) == [origin |-> origin, node |-> node, seed |-> seed]

\* variant: the variant number enters the seed
RunSeed_PerVariant(random_seed, var_number, iteration) == random_seed + iteration + var_number

\* `let random_seed = self.random_seed + iteration`
RunSeed(random_seed, var_number, iteration) == random_seed + iteration

\* variant: the loop also runs for iteration = iterations
ForContinues_Inclusive(iteration, iterations) == iteration <= iterations

\* `for iteration in 0..self.iterations`
ForContinues(iteration, iterations) == iteration < iterations

\* variant: join returns as soon as the queue is empty
PoolJoined_QueueOnly(pool) == pool.queue = <<>>

\* ThreadPool::join returns once no job is queued and none is active
PoolJoined(pool) == pool.queue = <<>> /\ pool.active = {}

\* model_factory.build_simulator: Simulator::new gives every node a
\* generator of its own, seeded 0
BuildSimulator(classes) == [p \in DOMAIN classes |-> Rng("Simulator::new", p, 0)]

\* Simulator::init_static, recursively: every node takes the generator it
\* is handed and hands a clone of the Rc to its sub-simulators
InitStatic(classes, rngs, rng) == [p \in DOMAIN classes |-> rng]

\* Experiment::create_root_simulator: RootSimulator::new builds a new tree,
\* RootSimulator::init_static seeds the generator of the run
CreateRootSimulator(e, job) ==
    [var_number |-> job.var_number,
     iteration |-> job.iteration,
     random_seed |-> job.random_seed,
     simulator |-> e.built + 1,
     init_variant |-> job.init_variant,
     rng |-> InitStatic(e.classes, BuildSimulator(e.classes),
                        Rng("RootSimulator::init_static", <<>>, job.random_seed)),
     status |-> "built"]

\* the arguments the loop body prepares for one run
Job(e) ==
    [var_number |-> e.variant.var_number,
     iteration |-> e.iteration,
     random_seed |-> RunSeed(e.random_seed, e.variant.var_number, e.iteration),
     init_variant |-> e.variant.values]

\* root.init(); root.run() of the run at position k: it ends, or a fatal
\* error is raised inside it
RunOutcome(e, k) ==
    IF <<e.runs[k].var_number, e.runs[k].iteration>> \in e.failing THEN "failed" ELSE "finished"

NotExperiment ==
    <<tree, t_last, t_next_self, t_next, imminent, mail, sim_time, pc, log, ta_returned,
      router, time_op, agents>>

\* an Experiment is configured: a class storage of shape root{a, b}, the
\* root_init_variants absent or of one entry, iterations, and the mode it
\* will be run in. reported is what the run functions hand back about
\* failed runs: both return ()
ExperimentInit ==
    /\ tree = 1
    /\ t_last = [n \in Nodes |-> Value(0)]
    /\ t_next_self = [n \in Nodes |-> Inf]
    /\ t_next = [n \in Nodes |-> Inf]
    /\ imminent = [n \in Nodes |-> {}]
    /\ mail = [n \in Nodes |-> <<>>]
    /\ sim_time = init_time
    /\ pc = "new"
    /\ log = <<>>
    /\ ta_returned = {}
    /\ router = RouterIdle
    /\ time_op = TimeIdle
    /\ agents = AgentsIdle
    /\ \E counts \in VariantCounts(FlatClasses), iterations \in 1..MaxIterations,
          mode \in {"single", "multi"}, failing \in FailingRuns :
          /\ counts[<<>>] \in {NoRootInit, 1}
          /\ experiment =
                [phase |-> "classes", mode |-> mode, classes |-> FlatClasses,
                 counts |-> counts, iterations |-> iterations, random_seed |-> RandomSeed,
                 failing |-> failing, factory |-> [panic |-> FALSE], yielded |-> <<>>,
                 variant |-> [var_number |-> 0, values |-> <<>>], iteration |-> 0,
                 runs |-> <<>>, built |-> 0,
                 pool |-> [queue |-> <<>>, active |-> {}],
                 panic_in |-> "", reported |-> {}]

\* Experiment::new: InitVariantsFactory::new
ExperimentNew ==
    /\ experiment.phase = "classes"
    /\ \E f \in {FactoryNew(experiment.classes, experiment.counts)} :
          experiment' = IF f.panic
                          THEN [experiment EXCEPT !.phase = "panicked", !.panic_in = "new"]
                          ELSE [experiment EXCEPT !.phase = "loop", !.factory = f]
    /\ UNCHANGED NotExperiment

\* the head of `while let Some(..) = next_enumerated_variant()`; in
\* run_multi_thread the body starts with a new pool
WhileLet ==
    /\ experiment.phase = "loop"
    /\ \E r \in {NextEnumeratedVariant(experiment.factory)} :
          experiment' =
             IF r.panic
               THEN [experiment EXCEPT !.phase = "panicked", !.panic_in = "next_variant"]
             ELSE IF ~r.some THEN [experiment EXCEPT !.phase = "done"]
             ELSE [experiment EXCEPT
                      !.phase = "for",
                      !.factory = r.factory,
                      !.variant = [var_number |-> r.var_number, values |-> r.values],
                      !.yielded = Append(@, [var_number |-> r.var_number,
                                             values |-> r.values]),
                      !.iteration = 0,
                      !.pool = [queue |-> <<>>, active |-> {}]]
    /\ UNCHANGED NotExperiment

\* run_single_thread, loop body: create_root_simulator
CreateRoot ==
    /\ experiment.phase = "for" /\ experiment.mode = "single"
    /\ ForContinues(experiment.iteration, experiment.iterations)
    /\ experiment' = [experiment EXCEPT
                         !.phase = "run",
                         !.runs = Append(@, CreateRootSimulator(experiment, Job(experiment))),
                         !.built = @ + 1]
    /\ UNCHANGED NotExperiment

\* run_single_thread, loop body: root.init(); root.run(). A panic inside
\* unwinds through run_single_thread
InitAndRun ==
    /\ experiment.phase = "run"
    /\ \E k \in {Len(experiment.runs)} : \E outcome \in {RunOutcome(experiment, k)} :
          experiment' = [experiment EXCEPT
                            !.runs[k].status = outcome,
                            !.iteration = @ + 1,
                            !.phase = IF outcome = "failed" THEN "panicked" ELSE "for",
                            !.panic_in = IF outcome = "failed" THEN "run" ELSE @]
    /\ UNCHANGED NotExperiment

\* run_multi_thread, loop body: pool.execute(closure)
Execute ==
    /\ experiment.phase = "for" /\ experiment.mode = "multi"
    /\ ForContinues(experiment.iteration, experiment.iterations)
    /\ experiment' = [experiment EXCEPT !.pool.queue = Append(@, Job(experiment)),
                                        !.iteration = @ + 1]
    /\ UNCHANGED NotExperiment

\* the for loop is over: back to the head (single), or pool.join() (multi)
ForEnd ==
    /\ experiment.phase = "for"
    /\ ~ForContinues(experiment.iteration, experiment.iterations)
    /\ experiment' = [experiment EXCEPT
                         !.phase = IF experiment.mode = "single" THEN "loop" ELSE "join"]
    /\ UNCHANGED NotExperiment

\* a free worker thread takes the oldest job and begins the closure:
\* create_root_simulator
WorkerTake ==
    /\ experiment.phase \in {"for", "join"} /\ experiment.mode = "multi"
    /\ experiment.pool.queue # <<>>
    /\ Cardinality(experiment.pool.active) < PoolThreads
    /\ experiment' = [experiment EXCEPT
                         !.runs = Append(@, CreateRootSimulator(experiment,
                                                                Head(experiment.pool.queue))),
                         !.built = @ + 1,
                         !.pool.queue = Tail(@),
                         !.pool.active = @ \cup {Len(experiment.runs) + 1}]
    /\ UNCHANGED NotExperiment

\* a worker thread runs root.init(); root.run() to the end. A panic inside
\* ends that thread only; the pool replaces it
WorkerRun ==
    /\ experiment.mode = "multi"
    /\ \E k \in experiment.pool.active :
          experiment' = [experiment EXCEPT !.runs[k].status = RunOutcome(experiment, k),
                                           !.pool.active = @ \ {k}]
    /\ UNCHANGED NotExperiment

\* pool.join() returns
Join ==
    /\ experiment.phase = "join"
    /\ PoolJoined(experiment.pool)
    /\ experiment' = [experiment EXCEPT !.phase = "loop"]
    /\ UNCHANGED NotExperiment

ExperimentNext ==
    \/ ExperimentNew \/ WhileLet \/ CreateRoot \/ InitAndRun \/ Execute \/ ForEnd
    \/ WorkerTake \/ WorkerRun \/ Join

ExperimentSpec == ExperimentInit /\ [][ExperimentNext]_vars

\* ------------------------------------------------------------------------
\* examples/ping_pong/ping_pong.rs : AgentDynamic and RootDynamic, run by
\* the kernel on root{A, B} with A.out -> B.in and B.out -> A.in
\* ------------------------------------------------------------------------
Agents == {"A", "B"}

PingPongTree ==
    [sub_simulators |-> [NoEdges EXCEPT !["root"] = <<"A", "B">>],
     external_input_couplings |-> NoEdges,
     internal_couplings |->
        [NoEdges EXCEPT !["root"] = <<InternalCoupling("A", "out", "B", "in"),
                                      InternalCoupling("B", "out", "A", "in")>>],
     external_output_couplings |-> NoEdges]

\* the run goes from t = 0 to t = 5
PingPongFinishTime == Value(5)

\* what time_advance may return in state STRIKE: 1 in the scenario, a
\* value drawn from the generator in the example
StrikeTA == 1..MaxStrikeTA

\* AgentDynamic::new
AgentNew == [state |-> "WAITING", last_count |-> 0]

\* AgentDynamic::init: the state is taken from the init value
AgentInit(a, state) == [a EXCEPT !.state = state, !.last_count = 0]

\* AgentDynamic::internal_transition
AgentInternal(a) == [a EXCEPT !.state = "WAITING"]

\* variant: the received count is taken over as it is
AgentExternal_KeepCount(a, x_bag) ==
    IF a.state = "WAITING"
      THEN [state |-> "STRIKE",
            last_count |-> IF x_bag # <<>> THEN x_bag[1].value ELSE a.last_count]
      ELSE a

\* AgentDynamic::external_transition
AgentExternal(a, x_bag) ==
    IF a.state = "WAITING"
      THEN [state |-> "STRIKE",
            last_count |-> IF x_bag # <<>> THEN x_bag[1].value + 1 ELSE a.last_count]
      ELSE a

\* AgentDynamic::confluent_transition
AgentConfluent(a, x_bag) == AgentExternal(AgentInternal(a), x_bag)

\* AgentDynamic::output; it panics in state WAITING
AgentOutput(a) == <<Msg("out", a.last_count)>>

\* AgentDynamic::time_advance, k being the value drawn for STRIKE
AgentTimeAdvance(a, k) == IF a.state = "STRIKE" THEN Value(k) ELSE Inf

\* the behaviour n after the transitions the kernel called on it, in call order
RECURSIVE AfterTransitions(_, _, _)
AfterTransitions(a, lg, n) ==
    IF lg = <<>> THEN a
    ELSE LET e == Head(lg)
             b == IF e.node # n THEN a
                  ELSE IF e.ev = "internal_transition" THEN AgentInternal(a)
                  ELSE IF e.ev = "external_transition" THEN AgentExternal(a, e.bag)
                  ELSE IF e.ev = "confluent_transition" THEN AgentConfluent(a, e.bag)
                  ELSE a
         IN AfterTransitions(b, Tail(lg), n)

\* the counts n put out in the calls of lg, in call order
RECURSIVE CountsOut(_, _)
CountsOut(lg, n) ==
    IF lg = <<>> THEN <<>>
    ELSE (IF Head(lg).ev = "output" /\ Head(lg).node = n
            THEN <<Head(lg).bag[1].value>> ELSE <<>>)
         \o CountsOut(Tail(lg), n)

NotAgents ==
    <<tree, router, time_op, experiment>>

\* Simulator::new on the three nodes; the init variant gives each agent its
\* first state
PingPongInit ==
    /\ tree = 1
    /\ t_last = [n \in Nodes |-> Value(0)]
    /\ t_next_self = [n \in Nodes |-> Inf]
    /\ t_next = [n \in Nodes |-> Inf]
    /\ imminent = [n \in Nodes |-> {}]
    /\ mail = [n \in Nodes |-> <<>>]
    /\ sim_time = init_time
    /\ pc = "new"
    /\ log = <<>>
    /\ ta_returned = {}
    /\ router = RouterIdle
    /\ time_op = TimeIdle
    /\ experiment = ExperimentIdle
    /\ \E first \in [Agents -> {"STRIKE", "WAITING"}] :
          agents = [phase |-> "built", first |-> first,
                    dyn |-> [n \in Agents |-> AgentNew],
                    outputs |-> [n \in Agents |-> <<>>], drawn |-> {}]

\* RootSimulator::init on the Ping-Pong tree
PingPongSimInit ==
    /\ pc = "new" /\ agents.phase = "built"
    /\ \E c \in {PingPongTree} :
       \E dyn \in {[n \in Agents |-> AgentInit(agents.dyn[n], agents.first[n])]} :
       \E k \in Products([n \in Agents |-> IF dyn[n].state = "STRIKE" THEN StrikeTA ELSE {1}]) :
       \E tns \in {[n \in Nodes |-> IF n \in Agents
                                      THEN TimeAdd(init_time, AgentTimeAdvance(dyn[n], k[n]))
                                    ELSE IF n = Root THEN TimeAdd(init_time, Inf)
                                    ELSE t_next_self[n]]} :
       \E tn \in {[n \in Nodes |-> IF n \in TreeNodes(c) THEN InitTNext(c, tns, n)
                                    ELSE t_next[n]]} :
          /\ t_last' = [n \in Nodes |-> IF n \in TreeNodes(c) THEN init_time ELSE t_last[n]]
          /\ t_next_self' = tns
          /\ t_next' = tn
          /\ sim_time' = tn[Root]
          /\ log' = InitLog(c, Root, init_time)
          /\ agents' = [agents EXCEPT
                          !.phase = "active", !.dyn = dyn,
                          !.drawn = {k[n] : n \in {m \in Agents : dyn[m].state = "STRIKE"}}]
    /\ pc' = "running"
    /\ UNCHANGED <<imminent, mail, ta_returned>>
    /\ UNCHANGED NotAgents

\* one iteration of the loop of RootSimulator::run on the Ping-Pong tree:
\* the outputs, the transitions and the time advances are those of the
\* agents; drawn is only the value of time_advance in state STRIKE
PingPongStep ==
    /\ pc = "running" /\ agents.phase = "active"
    /\ LoopCondition(sim_time, PingPongFinishTime)
    /\ \E c \in {PingPongTree} :
       \E collected \in {CollectOutputs(c, SimState, Root, sim_time, NoOutput).st} :
       \E emitting \in {NodesOf(collected.log, {"output"}) \cap Agents} :
       \E out \in {[n \in Nodes |-> IF n \in emitting THEN AgentOutput(agents.dyn[n])
                                     ELSE <<>>]} :
       \E ord \in HashOrders(c, collected.imminent) :
       \E before \in {RootStep(c, SimState, sim_time, out, Inf, AnyTa, ord)} :
       \E called \in {NodesOf(before.log, Transitions) \cap Agents} :
       \E dyn \in {[n \in Agents |-> AfterTransitions(agents.dyn[n], before.log, n)]} :
       \E k \in Products([n \in Agents |-> IF n \in called /\ dyn[n].state = "STRIKE"
                                               THEN StrikeTA ELSE {1}]) :
       \E r \in {RootStep(c, SimState, sim_time, out, Inf,
                            [n \in Nodes |-> IF n \in called
                                               THEN AgentTimeAdvance(dyn[n], k[n]) ELSE Inf],
                            ord)} :
       \E unknown_state \in {\E n \in emitting : agents.dyn[n].state # "STRIKE"} :
          /\ t_last' = r.t_last
          /\ t_next_self' = r.t_next_self
          /\ t_next' = r.t_next
          /\ imminent' = r.imminent
          /\ mail' = r.mail
          /\ log' = r.log
          /\ pc' = IF r.panic \/ unknown_state THEN "panicked" ELSE "running"
          /\ sim_time' = IF r.panic \/ unknown_state THEN sim_time ELSE r.t_next[Root]
          /\ agents' = [agents EXCEPT
                          !.dyn = dyn,
                          !.outputs = [n \in Agents |-> @[n] \o CountsOut(r.log, n)],
                          !.drawn = @ \cup {k[n] : n \in {m \in called :
                                                             dyn[m].state = "STRIKE"}}]
    /\ UNCHANGED ta_returned
    /\ UNCHANGED NotAgents

\* the loop has ended: finish(sim_time)
PingPongFinish ==
    /\ pc = "running" /\ agents.phase = "active"
    /\ ~LoopCondition(sim_time, PingPongFinishTime)
    /\ pc' = "finished"
    /\ log' = FinishLog(PingPongTree, Root, sim_time)
    /\ UNCHANGED <<t_last, t_next_self, t_next, imminent, mail, sim_time, ta_returned, agents>>
    /\ UNCHANGED NotAgents

PingPongNext == PingPongSimInit \/ PingPongStep \/ PingPongFinish

PingPongSpec == PingPongInit /\ [][PingPongNext]_vars

\* ------------------------------------------------------------------------
\* Vocabulary of the properties
\* ------------------------------------------------------------------------
\* a is an earlier time than b (StopSim before every Value, Inf after)
Earlier(a, b) ==
    \/ a.tag = "StopSim" /\ b.tag # "StopSim"
    \/ a.tag = "Value" /\ b.tag = "Value" /\ a.v < b.v
    \/ a.tag = "Value" /\ b.tag = "Inf"
NotLater(a, b) == a = b \/ Earlier(a, b)

\* log holds the calls of a tick / of a tick that ran to its end
IsTick == pc \in {"running", "panicked"} /\ log # <<>> /\ log[1].ev # "init"
TickDone == IsTick /\ pc = "running"
\* positions of the logged calls of the given kinds (on node n)
Calls(kinds) == {i \in 1..Len(log) : log[i].ev \in kinds}
CallsOn(kinds, n) == {i \in Calls(kinds) : log[i].node = n}
TheTree == Trees[tree]

\* ------------------------------------------------------------------------
\* C1 (stated as claimed): every transition invoked by process_x_messages is
\* the one the table prescribes: delta_int iff t = t_next_self and the x_bag
\* is empty, delta_con iff t = t_next_self and the x_bag is non-empty,
\* delta_ext iff t < t_next_self and the x_bag is non-empty; no other
\* combination invokes a transition.
\* ------------------------------------------------------------------------
C1_TransitionTable ==
    \A i \in Calls(Transitions) :
        /\ log[i].ev = "internal_transition"
              <=> (log[i].at = log[i].due /\ log[i].bag = <<>>)
        /\ log[i].ev = "confluent_transition"
              <=> (log[i].at = log[i].due /\ log[i].bag # <<>>)
        /\ log[i].ev = "external_transition"
              <=> (Earlier(log[i].at, log[i].due) /\ log[i].bag # <<>>)

\* ------------------------------------------------------------------------
\* C2 (stated as claimed): a call of process_x_messages entered with
\* sim_time < t_next_self and an empty x_bag invokes no transition function
\* of the node (and so none of its before_/after_ transition hooks).
\* ------------------------------------------------------------------------
C2_NoTransitionOnEmptyInput ==
    \A i \in Calls({"process_x_messages"}) :
        (Earlier(log[i].at, log[i].due) /\ log[i].bag = <<>>)
            => CallsOn(Transitions, log[i].node) = {}

C4_Candidates(n) == {t_next_self[n]} \cup {t_next[ch] : ch \in SubSet(TheTree, n)}

C4_TNextIsMinimum ==
    (pc \in {"running", "finished"}) =>
        \A n \in TreeNodes(TheTree) :
            /\ t_next[n] \in C4_Candidates(n)
            /\ \A x \in C4_Candidates(n) : NotLater(t_next[n], x)

\* after a completed tick a coupled node takes its t_next from a child that
\* is not its first one
C4_Witness ==
    /\ TickDone
    /\ \E n \in TreeNodes(TheTree) :
          /\ Len(TheTree.sub_simulators[n]) >= 2
          /\ t_next[n] # t_next_self[n]
          /\ t_next[n] # t_next[TheTree.sub_simulators[n][1]]
          /\ t_next[n] # Inf

\* ------------------------------------------------------------------------
\* C5: as long as every time_advance result was Inf or a Value >= 0, every
\* call of process_x_messages is entered with t_last <= sim_time <=
\* t_next_self and no synchronization panic (of process_x_messages or of
\* collect_outputs) has happened.
\* ------------------------------------------------------------------------
C5_NoPanicUnderContract ==
    (ta_returned = {}) =>
        /\ pc # "panicked"
        /\ IsTick => \A i \in Calls({"process_x_messages"}) :
                        /\ log[i].elapsed.tag = "Value" /\ log[i].elapsed.v >= 0
                        /\ NotLater(log[i].at, log[i].due)

\* a completed tick under the contract in which a node below the root was
\* called at its own t_next_self after a zero time advance and another one
\* before its t_next_self
C5_Witness ==
    /\ TickDone
    /\ ta_returned = {}
    /\ \E i, j \in Calls({"process_x_messages"}) :
          /\ log[i].node # Root /\ log[j].node # Root
          /\ log[i].at = log[i].due /\ log[i].elapsed = Value(0)
          /\ Earlier(log[j].at, log[j].due)

\* ------------------------------------------------------------------------
\* Vocabulary of the router properties: where a routed message comes from
\* ------------------------------------------------------------------------
Children == {"p", "q"}
InboundOf(c) == IF c \in DOMAIN router.x_bags THEN router.x_bags[c] ELSE <<>>
Count(bag, m) == Cardinality({i \in DOMAIN bag : bag[i] = m})
\* the positions (mail item, message) of a mail
Positions(ml) == UNION {{<<i, j>> : j \in DOMAIN ml[i].y_bag} : i \in DOMAIN ml}
\* the pairs (EIC edge to c, message of x_bag on the edge's port)
ViaEic(c) ==
    {kj \in (DOMAIN router.eic) \X (DOMAIN router.x_bag) :
        /\ router.eic[kj[1]].destination_model = c
        /\ router.eic[kj[1]].source_port = router.x_bag[kj[2]].port}
\* the pairs (IC edge to c, message of its source's bag in mail on its port)
ViaIc(c) ==
    {kij \in (DOMAIN router.ic) \X Positions(router.mail) :
        /\ router.ic[kij[1]].destination_model = c
        /\ router.ic[kij[1]].source_model = router.mail[kij[2][1]].model_name
        /\ router.ic[kij[1]].source_model_port
             = router.mail[kij[2][1]].y_bag[kij[2][2]].port}
\* the pairs (EOC edge, message of its source's bag in mail on its port)
ViaEoc ==
    {kij \in (DOMAIN router.eoc) \X Positions(router.mail) :
        /\ router.eoc[kij[1]].source_model = router.mail[kij[2][1]].model_name
        /\ router.eoc[kij[1]].source_model_port
             = router.mail[kij[2][1]].y_bag[kij[2][2]].port}
EicMsg(kj) == Msg(router.eic[kj[1]].destination_model_port, router.x_bag[kj[2]].value)
IcMsg(kij) ==
    Msg(router.ic[kij[1]].destination_model_port,
        router.mail[kij[2][1]].y_bag[kij[2][2]].value)
EocMsg(kij) ==
    Msg(router.eoc[kij[1]].destination_port, router.mail[kij[2][1]].y_bag[kij[2][2]].value)
\* every message the router returned and every message a pair yields
RouterMsgs ==
    {router.y_bag[i] : i \in DOMAIN router.y_bag}
    \cup UNION {{router.x_bags[c][i] : i \in DOMAIN router.x_bags[c]} :
                  c \in DOMAIN router.x_bags}
    \cup {EocMsg(kij) : kij \in ViaEoc}
    \cup UNION {{EicMsg(kj) : kj \in ViaEic(c)} \cup {IcMsg(kij) : kij \in ViaIc(c)} :
                  c \in Children}

\* ------------------------------------------------------------------------
\* C6: the router neither invents nor drops messages. A child's inbound
\* bag holds every message exactly as many times as there are pairs (EIC
\* edge to the child, matching message of x_bag) plus pairs (IC edge to the
\* child, matching message of the source's bag in mail) that yield it, no
\* other child gets a bag, and the up-going y_bag holds every message
\* exactly once per pair (EOC edge, matching message in mail).
\* ------------------------------------------------------------------------
C6_RouterExact ==
    /\ router.phase = "routed_down" =>
          /\ DOMAIN router.x_bags \subseteq Children
          /\ \A c \in Children, m \in RouterMsgs :
                Count(InboundOf(c), m)
                  = Cardinality({kj \in ViaEic(c) : EicMsg(kj) = m})
                    + Cardinality({kij \in ViaIc(c) : IcMsg(kij) = m})
    /\ router.phase = "routed_up" =>
          \A m \in RouterMsgs :
             Count(router.y_bag, m) = Cardinality({kij \in ViaEoc : EocMsg(kij) = m})

\* a child received messages through an EIC and through an IC edge, one of
\* them twice, while a message of the x_bag matched no edge
C6_Witness ==
    /\ router.phase = "routed_down"
    /\ \E c \in Children :
          /\ ViaEic(c) # {} /\ ViaIc(c) # {}
          /\ \E m \in RouterMsgs : Count(InboundOf(c), m) = 2
    /\ \E j \in DOMAIN router.x_bag :
          \A k \in DOMAIN router.eic : router.eic[k].source_port # router.x_bag[j].port

\* ------------------------------------------------------------------------
\* Order of a routed bag: the pairs a child's messages come from, as
\* records [g, k, i, j, msg] (g = 1 for EIC, 2 for IC; k the edge, i the
\* mail item, j the message), listed by ascending key
\* ------------------------------------------------------------------------
Provenance(c) ==
    {[g |-> 1, k |-> kj[1], i |-> 0, j |-> kj[2], msg |-> EicMsg(kj)] : kj \in ViaEic(c)}
    \cup {[g |-> 2, k |-> kij[1], i |-> kij[2][1], j |-> kij[2][2], msg |-> IcMsg(kij)] :
             kij \in ViaIc(c)}
LexLess(a, b) ==
    \E n \in DOMAIN a : a[n] < b[n] /\ \A l \in 1..(n - 1) : a[l] = b[l]
\* the messages of the records of P by ascending key; key is a function on P
ListedBy(P, key) ==
    [n \in 1..Cardinality(P) |->
        (CHOOSE r \in P : Cardinality({u \in P : LexLess(key[u], key[r])}) = n - 1).msg]
ObservedKey(P) == [r \in P |-> <<r.g, r.i, r.j, r.k>>]
DeclaredKey(P) == [r \in P |-> <<r.g, r.k, r.i, r.j>>]

\* ------------------------------------------------------------------------
\* C7 (stated as claimed): in every child's inbound bag the messages routed
\* through EIC edges precede those routed through IC edges, and within each
\* group they stand in the order they were observed (position in x_bag;
\* position in mail, then in the source's y_bag), whatever the order the
\* edges were declared in.
\* ------------------------------------------------------------------------
C7_ObservedOrder ==
    router.phase = "routed_down" =>
       \A c \in Children : InboundOf(c) = ListedBy(Provenance(c), ObservedKey(Provenance(c)))

\* ------------------------------------------------------------------------
\* C7 (amended): in every child's inbound bag the messages routed through
\* EIC edges precede those routed through IC edges; within each group they
\* stand in the declaration order of the edge that routed them, and the
\* messages of one edge stand in the order they were observed (position in
\* x_bag; position in mail, then in the source's y_bag).
\* ------------------------------------------------------------------------
C7_DeclarationOrder ==
    router.phase = "routed_down" =>
       \A c \in Children : InboundOf(c) = ListedBy(Provenance(c), DeclaredKey(Provenance(c)))

\* two EIC edges to one child, declared in the order opposite to the one
\* their messages have in the x_bag
C7_Witness ==
    /\ router.phase = "routed_down"
    /\ \E c \in Children :
       \E a, b \in ViaEic(c) : a[1] < b[1] /\ b[2] < a[2] /\ EicMsg(a) # EicMsg(b)

\* ------------------------------------------------------------------------
\* Vocabulary of the routing properties
\* ------------------------------------------------------------------------
\* collect_outputs was called on x in this tick, and the bag it returned
Collected(x) == CallsOn({"on_outputs"}, x) # {}
OutputOf(x) == log[CHOOSE i \in CallsOn({"on_outputs"}, x) : TRUE].bag
\* the x_bag process_x_messages was called with on x in this tick
Entered(x) == CallsOn({"process_x_messages"}, x) # {}
XBagOf(x) == log[CHOOSE i \in CallsOn({"process_x_messages"}, x) : TRUE].bag
ParentOf(x) == CHOOSE n \in TreeNodes(TheTree) : x \in SubSet(TheTree, n)
OnPort(bag, p) == SelectSeq(bag, LAMBDA m : m.port = p)
\* the messages of bag on the source port of IC edge e, as they arrive
Through(bag, e) ==
    [i \in 1..Len(OnPort(bag, e.source_model_port)) |->
        Msg(e.destination_model_port, OnPort(bag, e.source_model_port)[i].value)]
\* the internal couplings (node, position) of the tree between two children
Couplings ==
    {nk \in TreeNodes(TheTree) \X (1..2) :
        /\ nk[2] <= Len(TheTree.internal_couplings[nk[1]])
        /\ TheTree.internal_couplings[nk[1]][nk[2]].source_model
             # TheTree.internal_couplings[nk[1]][nk[2]].destination_model}
Coupling(nk) == TheTree.internal_couplings[nk[1]][nk[2]]

\* Q underwent exactly one transition in the tick, of this kind and x_bag
OnlyTransition(x, kind, bag) ==
    \E i \in CallsOn(Transitions, x) :
        /\ CallsOn(Transitions, x) = {i}
        /\ log[i].ev = kind
        /\ log[i].bag = bag

C8_Conclusion(e) ==
    /\ OnlyTransition(e.destination_model, "confluent_transition",
                      Through(OutputOf(e.source_model), e))
    /\ OnlyTransition(e.source_model, "internal_transition", <<>>)

\* ------------------------------------------------------------------------
\* C8 (stated as claimed): when children P and Q of a node are both
\* imminent in a tick and an internal coupling leads from P to Q, Q undergoes
\* exactly one transition, a confluent one whose x_bag is P's output taken
\* through the coupling, and P exactly one, an internal one.
\* ------------------------------------------------------------------------
C8_ConfluentOnCoupledPair ==
    TickDone =>
        \A nk \in Couplings :
            (Collected(Coupling(nk).source_model) /\ Collected(Coupling(nk).destination_model))
                => C8_Conclusion(Coupling(nk))

\* no other coupling of node n than its k-th internal one delivers to x
C8_NoOtherEdgeTo(n, k, x) ==
    /\ \A j \in 1..Len(TheTree.external_input_couplings[n]) :
          TheTree.external_input_couplings[n][j].destination_model # x
    /\ \A j \in 1..Len(TheTree.internal_couplings[n]) :
          j # k => TheTree.internal_couplings[n][j].destination_model # x

C8_Premise(nk) ==
    /\ TickDone
    /\ CallsOn({"output"}, Coupling(nk).source_model) # {}
    /\ CallsOn({"output"}, Coupling(nk).destination_model) # {}
    /\ OnPort(OutputOf(Coupling(nk).source_model), Coupling(nk).source_model_port) # <<>>
    /\ C8_NoOtherEdgeTo(nk[1], nk[2], Coupling(nk).source_model)
    /\ C8_NoOtherEdgeTo(nk[1], nk[2], Coupling(nk).destination_model)

\* ------------------------------------------------------------------------
\* C8 (amended): in a tick that runs to its end, when the output functions
\* of both P and Q are called (each is due at its own t_next_self and is
\* collected by the parent), P's output holds at least one message on the
\* coupled port and no other coupling of the parent delivers to P or Q, then
\* Q undergoes exactly one transition, a confluent one whose x_bag is P's
\* output taken through the coupling, and P exactly one, an internal one.
\* ------------------------------------------------------------------------
C8_ConfluentOnEmittingPair ==
    \A nk \in Couplings : C8_Premise(nk) => C8_Conclusion(Coupling(nk))

C8_Witness ==
    \E nk \in Couplings : C8_Premise(nk) /\ C8_Conclusion(Coupling(nk))

\* some coupling of x's parent delivers a message to x in this tick
RoutedTo(x) ==
    LET n == ParentOf(x)
        eic == TheTree.external_input_couplings[n]
        ic == TheTree.internal_couplings[n]
    IN \/ \E j \in 1..Len(eic) :
             /\ eic[j].destination_model = x
             /\ Entered(n)
             /\ OnPort(XBagOf(n), eic[j].source_port) # <<>>
       \/ \E j \in 1..Len(ic) :
             /\ ic[j].destination_model = x
             /\ Collected(ic[j].source_model)
             /\ OnPort(OutputOf(ic[j].source_model), ic[j].source_model_port) # <<>>

C10_StopSimEndsRun ==
    [][("StopSim" \in ta_returned) => (t_next[Root] = StopSim /\ pc' = "finished")]_vars

\* ------------------------------------------------------------------------
\* Vocabulary of the driver properties
\* ------------------------------------------------------------------------
\* init has just run: the driver loop is about to be entered for the first time
JustInitialised == pc = "running" /\ log # <<>> /\ log[1].ev = "init"
\* lg holds exactly one call of kind on every node of the tree, each at time t
OncePerNode(lg, kind, t) ==
    /\ \A i \in DOMAIN lg : lg[i].ev = kind /\ lg[i].at = t
    /\ \A n \in TreeNodes(TheTree) :
          Cardinality({i \in DOMAIN lg : lg[i].node = n}) = 1
    /\ \A i \in DOMAIN lg : lg[i].node \in TreeNodes(TheTree)
PositionOf(lg, n) == CHOOSE i \in DOMAIN lg : lg[i].node = n

AllPassive == \A n \in TreeNodes(TheTree) : t_next_self[n] = Inf

C14_Lifecycle ==
    [][/\ pc \in {"new", "running"}
       /\ pc' # "new"
       /\ (pc = "new") <=> (\E i \in DOMAIN log' : log'[i].ev = "init")
       /\ pc = "new" => OncePerNode(log', "init", init_time)
       /\ (pc' = "finished") <=> (\E i \in DOMAIN log' : log'[i].ev = "finish")
       /\ pc' = "finished" =>
             /\ OncePerNode(log', "finish", sim_time)
             /\ \A n \in TreeNodes(TheTree) : \A ch \in SubSet(TheTree, n) :
                   PositionOf(log', ch) < PositionOf(log', n)]_vars

\* a run of the nested tree that ended after some node had transitioned
C14_Witness ==
    /\ pc = "finished"
    /\ \E n \in TreeNodes(TheTree) :
          SubSet(TheTree, n) # {} /\ n # Root /\ Earlier(init_time, t_last[n])

\* ------------------------------------------------------------------------
\* C15: as long as every time_advance result was Inf or a Value >= 0, the
\* sim_time after a tick is not below the sim_time the tick was executed at.
\* ------------------------------------------------------------------------
C15_SimTimeMonotone ==
    [][(pc = "running" /\ pc' = "running" /\ ta_returned' = {})
          => NotLater(sim_time, sim_time')]_vars

\* a tick under the contract after which sim_time has advanced
C15_Witness ==
    /\ TickDone /\ ta_returned = {}
    /\ sim_time.tag = "Value" /\ Earlier(log[1].at, sim_time)

\* ------------------------------------------------------------------------
\* C16 (stated as claimed): a run is deterministic. Stated for one tick:
\* from the same state, with every behaviour returning the same results,
\* the sequence of calls of the tick is the same whatever order the
\* imminent sets are iterated in.
\* ------------------------------------------------------------------------
C16_SameResultsSameEvents ==
    (pc = "running" /\ LoopCondition(sim_time, finish_time)) =>
        \A ord1, ord2 \in HashOrders(TheTree,
                CollectOutputs(TheTree, SimState, Root, sim_time, NoOutput).st.imminent) :
            RootStep(TheTree, SimState, sim_time, NoOutput, Inf, AnyTa, ord1).log
              = RootStep(TheTree, SimState, sim_time, NoOutput, Inf, AnyTa, ord2).log

\* ------------------------------------------------------------------------
\* C17 (stated as claimed): within a tick the children of a node are
\* processed in ascending name order: of two children that both have their
\* output collected, and of two children that both undergo a transition,
\* the one with the smaller name comes first.
\* ------------------------------------------------------------------------
C17_AscendingNameOrder ==
    IsTick =>
        \A n \in TreeNodes(TheTree) :
        \A i, j \in DOMAIN TheTree.sub_simulators[n] :
            i < j =>
               /\ \A x \in CallsOn({"on_outputs"}, TheTree.sub_simulators[n][i]),
                     y \in CallsOn({"on_outputs"}, TheTree.sub_simulators[n][j]) : x < y
               /\ \A x \in CallsOn(Transitions, TheTree.sub_simulators[n][i]),
                     y \in CallsOn(Transitions, TheTree.sub_simulators[n][j]) : x < y

\* ------------------------------------------------------------------------
\* C18 (stated as claimed): a node whose time_advance returned a negative
\* Value (its t_next_self lies before its t_last) undergoes no further
\* transition: the next tick ends in the fatal synchronization error.
\* ------------------------------------------------------------------------
C18_NegativeIsFatal ==
    [][\A n \in TreeNodes(TheTree) :
          (pc = "running" /\ Earlier(t_next_self[n], t_last[n])) =>
              /\ pc' = "panicked"
              /\ \A i \in DOMAIN log' : log'[i].node = n => log'[i].ev \notin Transitions]_vars

\* ------------------------------------------------------------------------
\* C19 (stated as claimed): Time comparison is a total order with equality
\* by tag and payload: cmp(x, x) is Equal and x == x for every x, also for
\* Inf and StopSim; x == y exactly when cmp(x, y) is Equal, which is
\* exactly when x and y have the same tag and payload; cmp(x, y) is Less
\* exactly when cmp(y, x) is Greater; cmp is transitive; and
\* StopSim < Value(a) < Value(b) < Inf whenever a < b.
\* ------------------------------------------------------------------------
C19_TotalOrder ==
    time_op.phase = "compared" =>
        /\ time_op.xx = "Equal" /\ time_op.eq_xx
        /\ time_op.eq_xy <=> time_op.xy = "Equal"
        /\ time_op.eq_xy <=> time_op.x = time_op.y
        /\ time_op.xy = "Less" <=> time_op.yx = "Greater"
        /\ (time_op.xy = "Less" /\ time_op.yz = "Less") => time_op.xz = "Less"
        /\ time_op.xy = "Less" <=> Earlier(time_op.x, time_op.y)

\* ------------------------------------------------------------------------
\* C20: for operands whose result is in the range of Inner, x + y and
\* x - y are:
\* Inf when x is Inf; Value(a + b) and Value(a - b) for Value(a) and
\* Value(b); StopSim for StopSim and StopSim; Value(v) for Value(v) and
\* StopSim.
\* ------------------------------------------------------------------------
C20_AddSubTable ==
    time_op.phase = "computed" =>
        /\ time_op.x = Inf => (time_op.sum = Inf /\ time_op.diff = Inf)
        /\ (time_op.x.tag = "Value" /\ time_op.y.tag = "Value") =>
              /\ InRange(time_op.x.v + time_op.y.v) =>
                    time_op.sum = Value(time_op.x.v + time_op.y.v)
              /\ InRange(time_op.x.v - time_op.y.v) =>
                    time_op.diff = Value(time_op.x.v - time_op.y.v)
        /\ (time_op.x = StopSim /\ time_op.y = StopSim) =>
              (time_op.sum = StopSim /\ time_op.diff = StopSim)
        /\ (time_op.x.tag = "Value" /\ time_op.y = StopSim) =>
              (time_op.sum = time_op.x /\ time_op.diff = time_op.x)

\* a finite time and StopSim were added and subtracted
C20_Witness ==
    /\ time_op.phase = "computed"
    /\ time_op.x.tag = "Value" /\ time_op.x.v # 0 /\ time_op.y = StopSim
    /\ time_op.sum = time_op.x /\ time_op.diff = time_op.x

\* ------------------------------------------------------------------------
\* C21 (stated as claimed): adding or subtracting two Value times whose
\* mathematical result lies outside the range of Inner is a fatal error:
\* the operation never yields a wrapped-around Value.
\* ------------------------------------------------------------------------
C21_OverflowIsFatal ==
    (time_op.phase = "computed" /\ time_op.x.tag = "Value" /\ time_op.y.tag = "Value") =>
        /\ ~InRange(time_op.x.v + time_op.y.v) => time_op.sum = Overflowed
        /\ ~InRange(time_op.x.v - time_op.y.v) => time_op.diff = Overflowed

\* ------------------------------------------------------------------------
\* Vocabulary of C30: collect_outputs applied to the state a tick starts in
\* ------------------------------------------------------------------------
\* a tick is about to run at sim_time
TickDue == pc = "running" /\ LoopCondition(sim_time, finish_time)
\* what output() may return on every node of the tree
OutputOracles ==
    {[n \in Nodes |-> IF n \in DOMAIN o THEN o[n] ELSE <<>>] :
        o \in [TreeNodes(TheTree) -> OutBags]}
\* the state root.collect_outputs(sim_time) leaves
AfterCollect(out) == CollectOutputs(TheTree, SimState, Root, sim_time, out).st
\* the positions in lg of the calls of the given kind on n
CallsIn(lg, kind, n) == {i \in 1..Len(lg) : lg[i].ev = kind /\ lg[i].node = n}
\* the bag n.collect_outputs returned, as passed to on_outputs
ReturnedBy(lg, n) == lg[CHOOSE i \in CallsIn(lg, "on_outputs", n) : TRUE].bag
\* the children of n whose t_next is sim_time, in child-name order
DueChildren(n) ==
    SelectSeq(TheTree.sub_simulators[n], LAMBDA ch : TimeEq(t_next[ch], sim_time))
\* an atomic below n that is due now
ImminentAtomicsBelow(n) ==
    {d \in Descendants(TheTree, n) :
        ~HasSubmodels(TheTree, d) /\ TimeEq(t_next_self[d], sim_time)}
\* collect_outputs ran on the coupled node n, which was not itself due
CollectedCoupled(r, n) ==
    /\ HasSubmodels(TheTree, n)
    /\ ~TimeEq(t_next_self[n], sim_time)
    /\ CallsIn(r.log, "on_outputs", n) # {}

\* ------------------------------------------------------------------------
\* C30 (stated as claimed): after collect_outputs(t) on a coupled node that
\* is not itself imminent, its imminent set is exactly the set of children c
\* with c.t_next == t, its mail holds exactly one entry (c, y_c) per
\* imminent child in child-name order, and the output function was invoked
\* exactly once on each imminent atomic descendant and on no node whose
\* t_next_self differs from t.
\* ------------------------------------------------------------------------
C30_CollectOutputs ==
    TickDue =>
        \A out \in OutputOracles :
            LET r == AfterCollect(out) IN
            ~r.panic =>
                \A n \in TreeNodes(TheTree) :
                    CollectedCoupled(r, n) =>
                        /\ r.imminent[n] = {DueChildren(n)[i] : i \in 1..Len(DueChildren(n))}
                        /\ r.mail[n] = [i \in 1..Len(DueChildren(n)) |->
                                           MailItem(DueChildren(n)[i],
                                                    ReturnedBy(r.log, DueChildren(n)[i]))]
                        /\ \A d \in ImminentAtomicsBelow(n) :
                              Cardinality(CallsIn(r.log, "output", d)) = 1
                        /\ \A d \in Descendants(TheTree, n) :
                              ~TimeEq(t_next_self[d], sim_time) =>
                                  CallsIn(r.log, "output", d) = {}

\* ------------------------------------------------------------------------
\* Vocabulary of the enumerator claims
\* ------------------------------------------------------------------------
\* the product of the numbers in the sequence ks
RECURSIVE ProductOf(_)
ProductOf(ks) == IF ks = <<>> THEN 1 ELSE Head(ks) * ProductOf(Tail(ks))
\* the declared counts in walk order, a model without variants counting as 1
CountsAsClaimed ==
    LET walked == BreadthFirst(experiment.classes, << <<>> >>)
    IN [i \in 1..Len(walked) |->
           IF experiment.counts[walked[i]] <= 0 THEN 1 ELSE experiment.counts[walked[i]]]
\* the enumerator exists and has not yet ended
Enumerating == experiment.phase \in {"ready", "exhausted", "panicked"}
\* the enumeration has ended: by None or by a panic
EnumerationEnded == experiment.phase \in {"exhausted", "panicked"}

\* ------------------------------------------------------------------------
\* C22 (stated as claimed): for a model tree whose models declare variant
\* counts k_1..k_m (a count of 0 being treated as 1), the enumerator yields
\* exactly the product of the k_i variants and then reports exhaustion; the
\* yielded assignments are pairwise distinct, and variant_index takes the
\* values 0, 1, ..., product-1 in that order.
\* ------------------------------------------------------------------------
C22_ProductOfCounts ==
    Enumerating =>
        /\ EnumerationEnded =>
              /\ experiment.phase = "exhausted"
              /\ Len(experiment.yielded) = ProductOf(CountsAsClaimed)
        /\ \A i \in 1..Len(experiment.yielded) : experiment.yielded[i].var_number = i - 1
        /\ \A i, j \in 1..Len(experiment.yielded) :
              i < j => experiment.yielded[i].values # experiment.yielded[j].values

\* ------------------------------------------------------------------------
\* C24 (stated as claimed): the enumerator's digits are ordered by a
\* breadth-first walk of the model tree from the root (siblings in name
\* order), and incrementing starts at the rightmost digit with carry: the
\* model that is last in breadth-first order varies fastest between
\* consecutive variant indices and the root varies slowest.
\* ------------------------------------------------------------------------
C24_BreadthFirstDigits ==
    experiment.phase \in {"ready", "exhausted"} =>
        LET walked == BreadthFirst(experiment.classes, << <<>> >>)
            last == walked[Len(walked)]
            vec == experiment.factory.init_vec
            ys == experiment.yielded
        IN /\ [i \in 1..Len(vec) |-> vec[i].model_path] = walked
           /\ \A i \in 1..(Len(ys) - 1) :
                 /\ experiment.counts[last] >= 2 => ys[i].values[last] # ys[i + 1].values[last]
                 /\ ys[i].values[<<>>] # ys[i + 1].values[<<>>] =>
                       \A q \in DOMAIN experiment.classes \ {<<>>} :
                           ys[i + 1].values[q] = VariantValue(q, 1)

\* ------------------------------------------------------------------------
\* Vocabulary of the driver claims
\* ------------------------------------------------------------------------
\* the pairs (variant, iteration) of nv variants in enumeration order
ExpectedRuns(nv, iters) ==
    [k \in 1..(nv * iters) |-> <<(k - 1) \div iters, (k - 1) % iters>>]
\* the runs begun so far, as pairs
RunKeys ==
    [k \in 1..Len(experiment.runs) |->
        <<experiment.runs[k].var_number, experiment.runs[k].iteration>>]
\* the driver was started
Driving == experiment.phase # "classes"
\* the models that declare no variants
Undeclared == {p \in DOMAIN experiment.classes : experiment.counts[p] <= 0}

\* ------------------------------------------------------------------------
\* C23 (stated as claimed): a model with zero declared init variants (a
\* child without init_variants, or a root without root_init_variants)
\* contributes a single-choice digit carrying its class default_init:
\* enumeration succeeds and every yielded variant map assigns that model its
\* default_init value. E.g. a root with no variants and two children with 2
\* and 3 variants yields 6 variants with indices 0..5, and with one
\* iteration the experiment driver performs 6 runs.
\* ------------------------------------------------------------------------
C23_DefaultDigit ==
    Driving =>
        /\ Undeclared # {} =>
              /\ experiment.panic_in \notin {"new", "next_variant"}
              /\ \A i \in 1..Len(experiment.yielded) : \A q \in Undeclared :
                    /\ q \in DOMAIN experiment.yielded[i].values
                    /\ experiment.yielded[i].values[q] = DefaultInit(q)
        /\ ( /\ experiment.counts = (<<>> :> NoRootInit) @@ (<<"a">> :> 2) @@ (<<"b">> :> 3)
             /\ experiment.iterations = 1
             /\ experiment.failing = {}
             /\ experiment.phase \in {"done", "panicked"} ) =>
              /\ experiment.phase = "done"
              /\ [i \in 1..Len(experiment.yielded) |-> experiment.yielded[i].var_number]
                    = [i \in 1..6 |-> i - 1]
              /\ Len(experiment.runs) = 6

\* ------------------------------------------------------------------------
\* C25: every run (v, i) seeds its generator with random_seed + i (for a
\* sum within u64), whatever v is, and every node of the run's simulator
\* tree holds this one generator.
\* ------------------------------------------------------------------------
C25_OneSeededGenerator ==
    \A k \in 1..Len(experiment.runs) :
        LET run == experiment.runs[k]
            seed == experiment.random_seed + run.iteration
        IN /\ run.random_seed = seed
           /\ \A q \in DOMAIN experiment.classes :
                 run.rng[q] = Rng("RootSimulator::init_static", <<>>, seed)

\* a run of a later variant and a later iteration was built
C25_Witness ==
    /\ Driving
    /\ \E k \in 1..Len(experiment.runs) :
          /\ experiment.runs[k].var_number >= 1
          /\ experiment.runs[k].iteration >= 1
          /\ experiment.runs[k].random_seed = RandomSeed + experiment.runs[k].iteration
          /\ experiment.runs[k].rng[<<"a">>] = experiment.runs[k].rng[<<>>]

\* ------------------------------------------------------------------------
\* C26: run_single_thread begins the runs in the order (0,0), (0,1), ...,
\* (0,iterations-1), (1,0), ...; each run has its own newly built simulator
\* tree and has completed init, the driver loop and finish before the next
\* run is begun; when run_single_thread returns it has executed exactly
\* (number of enumerated variants) x iterations runs.
\* ------------------------------------------------------------------------
C26_SequentialRuns ==
    (Driving /\ experiment.mode = "single") =>
        LET expected == ExpectedRuns(Len(experiment.yielded), experiment.iterations)
            n == Len(experiment.runs)
        IN /\ n <= Len(expected)
           /\ RunKeys = [k \in 1..n |-> expected[k]]
           /\ \A k \in 1..(n - 1) : experiment.runs[k].status = "finished"
           /\ \A j, k \in 1..n :
                 j < k => experiment.runs[j].simulator # experiment.runs[k].simulator
           /\ experiment.phase = "done" =>
                 /\ n = Len(expected)
                 /\ \A k \in 1..n : experiment.runs[k].status = "finished"

\* run_single_thread returned after several variants of two iterations each
C26_Witness ==
    /\ Driving /\ experiment.mode = "single" /\ experiment.phase = "done"
    /\ Len(experiment.yielded) >= 2 /\ experiment.iterations = 2
    /\ Len(experiment.runs) = 2 * Len(experiment.yielded)

\* ------------------------------------------------------------------------
\* C27: in run_multi_thread no run of a later variant is begun before
\* every run of an earlier variant has ended, while runs of one variant may
\* be under way at the same time.
\* ------------------------------------------------------------------------
C27_VariantAtATime ==
    (Driving /\ experiment.mode = "multi") =>
        /\ \A j, k \in 1..Len(experiment.runs) :
              experiment.runs[j].var_number < experiment.runs[k].var_number =>
                  experiment.runs[j].status # "built"
        /\ \A j \in 1..Len(experiment.pool.queue) :
              experiment.pool.queue[j].var_number = experiment.variant.var_number
        /\ \A k \in 1..Len(experiment.runs) :
              experiment.runs[k].status = "built" =>
                  experiment.runs[k].var_number = experiment.variant.var_number

\* two iterations of a later variant are under way at the same time
C27_Witness ==
    /\ Driving /\ experiment.mode = "multi"
    /\ \E j, k \in experiment.pool.active :
          /\ j # k
          /\ experiment.runs[j].var_number = experiment.runs[k].var_number
          /\ experiment.runs[j].var_number >= 1
          /\ experiment.runs[j].status = "built" /\ experiment.runs[k].status = "built"

\* ------------------------------------------------------------------------
\* C28 (stated as claimed): a fatal error inside one run terminates only
\* that run: in both single-threaded and multi-threaded mode the driver
\* records the failure, still executes all remaining (variant, iteration)
\* runs, and reports the failures at the end.
\* ------------------------------------------------------------------------
C28_FailureEndsOnlyItsRun ==
    Driving =>
        /\ experiment.panic_in # "run"
        /\ experiment.phase = "done" =>
              /\ RunKeys = ExpectedRuns(Len(experiment.yielded), experiment.iterations)
              /\ experiment.reported =
                    {RunKeys[k] : k \in {i \in 1..Len(experiment.runs) :
                                            experiment.runs[i].status = "failed"}}

\* ------------------------------------------------------------------------
\* Vocabulary of C29
\* ------------------------------------------------------------------------
\* A starts in STRIKE and B in WAITING
PingPongScenario ==
    /\ agents.phase \in {"built", "active"}
    /\ agents.first = [n \in Agents |-> IF n = "A" THEN "STRIKE" ELSE "WAITING"]
\* the run from 0 to 5 is over and every time_advance in STRIKE was 1
PingPongRunOver == pc = "finished" /\ agents.drawn \subseteq {1}

CollectedFromChildren ==
    {n \in TreeNodes(TheTree) :
        /\ HasSubmodels(TheTree, n)
        /\ CallsOn({"on_outputs"}, n) # {}
        /\ CallsOn({"output"}, n) = {}}

\* the mail of n after its collect_outputs: one item for each child whose
\* outputs were collected, in the order of the collection
MailCollectedBy(n) ==
    LET at == SelectSeq([i \in 1..Len(log) |-> i],
                        LAMBDA i : log[i].ev = "on_outputs" /\ log[i].node \in SubSet(TheTree, n))
    IN [k \in 1..Len(at) |-> MailItem(log[at[k]].node, log[at[k]].bag)]

\* ------------------------------------------------------------------------
\* C31 (stated as claimed): in each tick external_mail_transition is
\* executed on every coupled node that collected outputs of its children in
\* that tick, root or not, with that node's mail, after the node's outputs
\* were collected and before any of its children is given its inbound bag.
\* ------------------------------------------------------------------------
C31_PhaseBOnEveryCoupled ==
    TickDone =>
        \A n \in CollectedFromChildren :
            \E i \in CallsOn({"external_mail_transition"}, n) :
                /\ log[i].bag = MailCollectedBy(n)
                /\ \A j \in CallsOn({"on_outputs"}, n) : j < i
                /\ \A ch \in SubSet(TheTree, n) :
                      \A j \in CallsOn({"process_x_messages"}, ch) : i < j

\* ------------------------------------------------------------------------
\* Vocabulary of the properties on elapsed
\* ------------------------------------------------------------------------
\* the functions of a behaviour that process_y_messages and
\* process_x_messages invoke and after which t_last is the time of the call
MailTransition == {"external_mail_transition"}
\* positions in lg of the calls of one of kinds on node n
CallsIn2(lg, kinds, n) == {i \in 1..Len(lg) : lg[i].ev \in kinds /\ lg[i].node = n}
Last(S) == CHOOSE i \in S : \A j \in S : j <= i
\* the time of the last call of one of kinds on the node of lg[i] before
\* position i of the tick logged in lg; before holds, per node, that time as
\* it was when the tick began
PreviousAt(lg, i, kinds, before) ==
    LET earlier == {j \in CallsIn2(lg, kinds, lg[i].node) : j < i}
    IN IF earlier = {} THEN before[lg[i].node] ELSE lg[Last(earlier)].at
\* every delta_ext of the tick logged in lg was given sim_time minus the
\* time of the node's previous call of one of kinds
ElapsedSince(lg, kinds, before) ==
    \A i \in 1..Len(lg) :
        lg[i].ev = "external_transition"
            => lg[i].elapsed = TimeSub(lg[i].at, PreviousAt(lg, i, kinds, before))
\* after the tick logged in lg the function after holds, per node, the time
\* of the last call of one of kinds on it
Tracks(lg, kinds, before, after) ==
    \A n \in TreeNodes(TheTree) :
        after[n] = IF CallsIn2(lg, kinds, n) = {} THEN before[n]
                   ELSE lg[Last(CallsIn2(lg, kinds, n))].at
\* the step taken is a tick
Ticked(lg) == lg # <<>> /\ lg[1].ev \notin {"init", "finish"}

BetweenTicks == pc \in {"running", "finished"}
\* what the router of n returns on the x_bag n was called with and the mail
\* n collected in this very tick
RoutedInTick(n) ==
    GetSubmodelsXBags(TheTree.external_input_couplings[n], TheTree.internal_couplings[n],
                      XBagOf(n), MailCollectedBy(n))

\* ------------------------------------------------------------------------
\* C33: whenever the root driver is between ticks (after init, after every
\* tick that ran to its end, and at finish) imminent and mail of every node
\* are empty; every x_bag a child is given in a tick is what its parent's
\* router returns on the outputs collected in that same tick.
\* ------------------------------------------------------------------------
C33_NothingKeptBetweenTicks ==
    /\ BetweenTicks =>
          \A n \in TreeNodes(TheTree) : imminent[n] = {} /\ mail[n] = <<>>
    /\ TickDone =>
          \A i \in Calls({"process_x_messages"}) :
              log[i].node # Root =>
                  log[i].bag = IF log[i].node \in DOMAIN RoutedInTick(ParentOf(log[i].node))
                                 THEN RoutedInTick(ParentOf(log[i].node))[log[i].node]
                                 ELSE <<>>

\* a tick has run to its end in which a node below the root collected a
\* non-empty output of a child and the root routed a message to a child
C33_Witness ==
    /\ TickDone
    /\ \E n \in CollectedFromChildren \ {Root} :
          \E k \in 1..Len(MailCollectedBy(n)) : MailCollectedBy(n)[k].y_bag # <<>>
    /\ \E i \in Calls({"process_x_messages"}) :
          log[i].bag # <<>> /\ ParentOf(log[i].node) = Root
    /\ \A n \in TreeNodes(TheTree) : imminent[n] = {} /\ mail[n] = <<>>

\* ------------------------------------------------------------------------
\* Vocabulary of the properties on observer events
\* ------------------------------------------------------------------------
\* positions in the calls H of the calls of hook name on node n by observer by
HookCalls(H, name, n, by) ==
    {k \in 1..Len(H) : H[k].hook = name /\ H[k].node = n /\ H[k].by = by}
\* positions of the calls of transition functions of behaviours (on node n)
TransitionCalls(H) ==
    {k \in 1..Len(H) : H[k].by = "model" /\ H[k].hook \in Transitions \cup MailTransition}
DeltaCallsOn(H, n) ==
    {k \in 1..Len(H) : H[k].by = "model" /\ H[k].node = n /\ H[k].hook \in Transitions}
\* the names of the hooks
HookNames ==
    {"on_outputs", "after_submodels_transition"}
    \cup {"before_" \o x : x \in Transitions \cup MailTransition}
    \cup {"after_" \o x : x \in Transitions \cup MailTransition}
\* the observers that were notified of hook name on node n, in order
NotifiedOf(H, name, n) ==
    LET calls == SelectSeq(H, LAMBDA h : h.hook = name /\ h.node = n /\ h.by # "model")
    IN [k \in 1..Len(calls) |-> calls[k].by]
\* s is t repeated a whole number of times
Repeats(s, t) ==
    /\ Len(s) % Len(t) = 0
    /\ \A k \in 1..Len(s) : s[k] = t[((k - 1) % Len(t)) + 1]

\* around the transition called at position k of H, observer o of the node
BracketedBy(H, k, o) ==
    LET n == H[k].node
        before == {b \in HookCalls(H, "before_" \o H[k].hook, n, o) : b < k}
        after == {a \in HookCalls(H, "after_" \o H[k].hook, n, o) : k < a}
        later == {j \in TransitionCalls(H) : k < j /\ H[j].node = n}
        below == UNION {DeltaCallsOn(H, ch) : ch \in SubSet(TheTree, n)}
    IN /\ before # {}
       /\ after # {}
       /\ \A j \in later \cup below : \E a \in after : a < j
       /\ later = {} => \A a \in after : H[a].reported = t_next_self[n]

\* ------------------------------------------------------------------------
\* C34: in a tick that runs to its end, around every call of a transition
\* function of a node each observer of the node gets the before_ hook before
\* the call and the matching after_ hook after it and before any transition
\* of a child of the node; the after_ hook of the node's last transition of
\* the tick reports the node's new t_next_self. after_submodels_transition
\* is called only on nodes that have children, after all transitions of
\* their children in the tick. For each hook the observers of a node are
\* notified in insertion order.
\* ------------------------------------------------------------------------
C34_ObserverOrder ==
    TickDone =>
        LET H == ObserverCalls(log, Observers) IN
        /\ \A k \in TransitionCalls(H) :
              \A i \in 1..Len(Observers[H[k].node]) :
                  BracketedBy(H, k, Observers[H[k].node][i])
        /\ \A k \in 1..Len(H) :
              H[k].hook = "after_submodels_transition" =>
                  /\ HasSubmodels(TheTree, H[k].node)
                  /\ \A ch \in SubSet(TheTree, H[k].node) :
                        \A j \in DeltaCallsOn(H, ch) : j < k
        /\ \A n \in TreeNodes(TheTree) :
              \A name \in HookNames :
                  Repeats(NotifiedOf(H, name, n), Observers[n])

\* a tick after init_time has run to its end in which a coupled node below
\* the root and its child both underwent a transition, and a node whose
\* observers were not inserted in the order of their names was notified
C34_Witness ==
    LET H == ObserverCalls(log, Observers) IN
    /\ TickDone
    /\ \E n \in TreeNodes(TheTree) \ {Root} :
          /\ DeltaCallsOn(H, n) # {}
          /\ \E ch \in SubSet(TheTree, n) : DeltaCallsOn(H, ch) # {}
          /\ HookCalls(H, "after_submodels_transition", n, Observers[n][1]) # {}
    /\ NotifiedOf(H, "after_internal_transition", "a") = <<"logger", "collector">>
    /\ Earlier(init_time, log[1].at)

\* ------------------------------------------------------------------------
\* Vocabulary of the properties on self-loops
\* ------------------------------------------------------------------------
\* the internal couplings (node, position) that lead from a child back to
\* that same child
SelfLoops ==
    {nk \in TreeNodes(TheTree) \X (1..2) :
        /\ nk[2] <= Len(TheTree.internal_couplings[nk[1]])
        /\ TheTree.internal_couplings[nk[1]][nk[2]].source_model
             = TheTree.internal_couplings[nk[1]][nk[2]].destination_model}
\* s is the end of t
IsSuffix(s, t) ==
    /\ Len(s) <= Len(t)
    /\ \A k \in 1..Len(s) : s[k] = t[Len(t) - Len(s) + k]
\* the child of self-loop e was collected in this tick and returned at least
\* one message on the coupled port
EmitsIntoLoop(e) ==
    /\ Collected(e.source_model)
    /\ OnPort(OutputOf(e.source_model), e.source_model_port) # <<>>
\* the child of self-loop e underwent one transition in this tick, of one of
\* kinds, at the time of the tick, its x_bag ending with what it emitted
\* into the loop
FedBack(e, kinds) ==
    \E i \in CallsOn(Transitions, e.source_model) :
        /\ CallsOn(Transitions, e.source_model) = {i}
        /\ log[i].ev \in kinds
        /\ log[i].at = log[1].at
        /\ IsSuffix(Through(OutputOf(e.source_model), e), log[i].bag)

AdvancedBy1(at, next) ==
    \/ next = Inf
    \/ next.tag = "Value" /\ at.tag = "Value" /\ next.v - at.v >= 1
\* every time_advance result of the tick logged in lg was Inf or a Value >= 1
Advancing(lg) ==
    \A i \in 1..Len(lg) :
        lg[i].ev \in Transitions \cup MailTransition => AdvancedBy1(lg[i].at, lg[i].next)
\* the nodes that are due themselves at time t
DueAt(tns, t) == {n \in TreeNodes(TheTree) : tns[n] = t}
\* the tick that leads to r brings the run nearer to finish_time: sim_time
\* moves forward, or it stays and fewer nodes are left due at it
Nearer(r) ==
    \/ Earlier(sim_time, r.t_next[Root])
    \/ /\ r.t_next[Root] = sim_time
       /\ DueAt(r.t_next_self, sim_time) \subseteq DueAt(t_next_self, sim_time)
       /\ DueAt(r.t_next_self, sim_time) # DueAt(t_next_self, sim_time)

\* ------------------------------------------------------------------------
\* C36: with the finite finish_time, a run in which every time_advance
\* result is Inf or a Value >= 1 terminates. Wherever the loop of the driver
\* has a tick to run, the tick ends without a panic and brings the run
\* nearer to finish_time: the next sim_time is a later one, or it is the
\* same one with fewer nodes left due at it. The sim_times below finish_time
\* and the nodes being finitely many, the loop is left after finitely many
\* ticks, and once it is left the run has finish as its only step and is
\* finished by it.
\* ------------------------------------------------------------------------
C36_Terminates ==
    /\ (pc = "running" /\ ta_returned = {} /\ LoopCondition(sim_time, finish_time)) =>
          LET outcomes == TickOutcomes
          IN /\ sim_time.tag = "Value"
             /\ outcomes # {}
             /\ \A r \in outcomes : Advancing(r.log) => (~r.panic /\ Nearer(r))
    /\ pc = "finished" =>
          (~LoopCondition(sim_time, finish_time) /\ OncePerNode(log, "finish", sim_time))

\* a run under the contract has finished at finish_time after at least one
\* tick; the last time_advance result of every node was Inf or a Value >= 1
C36_Witness ==
    /\ pc = "finished"
    /\ ta_returned = {}
    /\ sim_time = finish_time
    /\ \E n \in TreeNodes(TheTree) : Earlier(init_time, t_last[n])
    /\ \A n \in TreeNodes(TheTree) : AdvancedBy1(t_last[n], t_next_self[n])

\* ------------------------------------------------------------------------
\* C37: within one tick process_x_messages is invoked at most once on any
\* node, and no node undergoes more than one of delta_int, delta_ext and
\* delta_con; a child that is both imminent and routed a bag is called once,
\* with the bag.
\* ------------------------------------------------------------------------
C37_OneTransitionPerTick ==
    IsTick =>
        \A n \in TreeNodes(TheTree) :
            /\ Cardinality(CallsOn({"process_x_messages"}, n)) <= 1
            /\ Cardinality(CallsOn(Transitions, n)) <= 1
            /\ (n # Root /\ Collected(n) /\ RoutedTo(n) /\ pc = "running")
                  => \E i \in CallsOn({"process_x_messages"}, n) : log[i].bag # <<>>

\* a tick has run to its end in which a child that was imminent and was
\* routed a bag underwent one transition and an imminent sibling without
\* input another one
C37_Witness ==
    /\ TickDone
    /\ \E x, y \in TreeNodes(TheTree) \ {Root} :
          /\ x # y /\ ParentOf(x) = ParentOf(y)
          /\ Collected(x) /\ RoutedTo(x) /\ Cardinality(CallsOn(Transitions, x)) = 1
          /\ Collected(y) /\ ~RoutedTo(y) /\ Cardinality(CallsOn(Transitions, y)) = 1

\* ------------------------------------------------------------------------
\* C38 (stated as claimed): in every tick that runs to its end, every node
\* whose t_next equals sim_time when the tick starts has its outputs
\* collected and process_x_messages invoked on it during the tick.
\* ------------------------------------------------------------------------
C38_NoImminentSkipped ==
    [][(Ticked(log') /\ pc' = "running") =>
          \A n \in TreeNodes(TheTree) :
              t_next[n] = sim_time =>
                  /\ CallsIn2(log', {"on_outputs"}, n) # {}
                  /\ CallsIn2(log', {"process_x_messages"}, n) # {}]_vars

\* ------------------------------------------------------------------------
\* Vocabulary of the frame property
\* ------------------------------------------------------------------------
\* no function of the behaviour of n and no hook of its observers was called
\* in this tick
Untouched(n) == \A i \in 1..Len(log) : log[i].node # n

\* ------------------------------------------------------------------------
\* C39: a tick leaves unchanged t_last, t_next_self and t_next of every node
\* below the root that is neither imminent at the tick's time (its t_next is
\* not sim_time) nor routed a bag by its parent in the tick, and calls none
\* of its behaviour functions and observer hooks.
\* ------------------------------------------------------------------------
C39_OthersUntouched ==
    [][Ticked(log') =>
          \A n \in TreeNodes(TheTree) \ {Root} :
              (t_next[n] # sim_time /\ ~(RoutedTo(n))') =>
                  /\ t_last'[n] = t_last[n]
                  /\ t_next_self'[n] = t_next_self[n]
                  /\ t_next'[n] = t_next[n]
                  /\ Untouched(n)']_vars

\* a tick has run to its end that left alone a node below the root with an
\* event scheduled for later, while a sibling of it underwent a transition
C39_Witness ==
    /\ TickDone
    /\ \E x, y \in TreeNodes(TheTree) \ {Root} :
          /\ x # y /\ ParentOf(x) = ParentOf(y)
          /\ Untouched(x)
          /\ t_next[x].tag = "Value" /\ Earlier(log[1].at, t_next[x])
          /\ CallsOn(Transitions, y) # {}

\* ------------------------------------------------------------------------
\* Vocabulary of the property on StopSim
\* ------------------------------------------------------------------------
\* the nodes whose time_advance may return StopSim
MayStop == {n \in TreeNodes(TheTree) : StopSim \in TA(TheTree, n)}
\* the tick of the current state when the behaviours return the outputs out
\* and time_advance of node n returns ta (Inf on the other nodes)
TickWhere(out, n, ta) ==
    RootStep(TheTree, SimState, sim_time, out, IF n = Root THEN ta ELSE Inf,
             [AnyTa EXCEPT ![n] = ta], TheTree.sub_simulators)
\* the outputs the behaviours may return in the tick of the current state
OutputChoices ==
    LET emitting == NodesOf(CollectOutputs(TheTree, SimState, Root, sim_time, NoOutput).st.log,
                            {"output"})
    IN {[n \in Nodes |-> IF n \in emitting THEN outs[n] ELSE <<>>] :
           outs \in [emitting -> OutBags]}

====
